---- MODULE Spec2Model ----
(***************************************************************************)
(* A model of the turn-execution engine of codex-alfred:                   *)
(*   - ThreadWorkManager   (slack/threadWork.ts, src/unnamed/part_009)      *)
(*   - handleAppMention    (src/src/slack/mentionHandler.ts)                *)
(*   - runCodexAndPost     (src/src/slack/codexResponder.ts)                *)
(*   - resolveAttachments  (slack/attachmentResolver.ts, src/unnamed/part_009)*)
(*   - handleAction        (src/src/slack/actionHandler.ts)                 *)
(*                                                                         *)
(* The specifications share the variables:                                 *)
(*   SpecWork     the methods of ThreadWorkManager called in any order     *)
(*   SpecMention  handleAppMention invocations, one step per segment       *)
(*                between two awaits                                       *)
(*   SpecTurn     one call of runCodexAndPost, one step per segment        *)
(*                between two awaits                                       *)
(*   SpecEndToEnd one trigger handled by handleAppMention, with the steps   *)
(*                of its call of runCodexAndPost                           *)
(*   SpecAttach   the attachment stage of runCodexAndPost (resolve, upload, *)
(*                report, clean up) run by two turns at once                *)
(*   SpecCleanup  cleanupAttachments called on any list of paths           *)
(*   SpecAction   one handleAction invocation beside the work of a thread  *)
(***************************************************************************)
EXTENDS Integers, Sequences, FiniteSets, TLC

\* ------------------------------------------------------------------ bounds
\* SpecWork: method calls made; SpecMention: deliveries made and distinct
\* trigger events; SpecTurn: steps of the clock and events the agent streams
\* during one turn.
MaxCalls == 4
MaxDeliveries == 3
MaxEvents == 2
MaxTicks == 1
MaxStreamEvents == 1
MaxRequests == 2
MaxPaths == 3
MaxClock == 5
MaxMentions == 2
\* SpecStore: store calls made by the turns of one thread key.
MaxStoreCalls == 2

\* ------------------------------------------------------------- work state
VARIABLES
  states,        \* ThreadWorkManager.states: key -> ThreadWorkState
  aborted,       \* the AbortControllers whose abort() was called
  calls,         \* SpecWork: number of method calls made so far
  tryLog,        \* SpecWork: key -> results of tryBegin since the key last was idle
  idleAtFirstTry,\* SpecWork: key -> the key was idle at the first call of tryLog
  lastCall,      \* SpecWork: the last method call and what it returned
  invs,          \* SpecMention: the handleAppMention invocations
  delivered,     \* SpecMention: number of events delivered by the event source
  store,         \* SpecMention: ThreadStore, key -> record or NoRecord
  turn,          \* SpecTurn: the locals of runCodexAndPost and the await it is at
  placeholder,   \* SpecTurn: what the placeholder message shows in the chat
  now,           \* SpecTurn: Date.now()
  ghost,         \* SpecTurn: what has happened in the turn (history)
  sandbox,       \* SpecAttach: the configuration (mode, roots, container)
  files,         \* SpecAttach: the host file system, path -> kind
  jobs,          \* SpecAttach: the turns that process requested attachments
  act,           \* SpecAction: the handleAction invocation
  poll,          \* SpecBackfill: the backfill poller, its clock and the channel
  disk           \* SpecStore: the ThreadStore, its calls and its files

workVars == <<states, aborted>>
harnessVars == <<calls, tryLog, idleAtFirstTry, lastCall>>
mentionVars == <<invs, delivered, store>>
turnVars == <<turn, placeholder, now, ghost>>
attachVars == <<sandbox, files, jobs>>
actionVars == <<act>>
backfillVars == <<poll>>
storeVars == <<disk>>

Keys == {"T1", "T2"}
Events == 1..MaxEvents
NoController == 0
NoEvent == 0
NoRecord == "none"

\* The thread an event belongs to: ${event.channel}:${event.thread_ts ?? event.ts}.
KeyOf(e) == IF e % 3 = 0 THEN "T2" ELSE "T1"

Last(s) == s[Len(s)]
Range(s) == {s[j] : j \in 1..Len(s)}

\* getState: a state is created lazily with these fields.
NewState ==
  [inProgress |-> FALSE, abortController |-> NoController,
   queued |-> <<>>, busyMessages |-> <<>>, activeEventTs |-> NoEvent]

isBusy_Never(k) == FALSE

isBusy(k) == states[k].inProgress

hasSeenMention(k, eventTs) ==
  IF eventTs = NoEvent THEN FALSE
  ELSE IF states[k].activeEventTs = eventTs THEN TRUE
  ELSE \E j \in 1..Len(states[k].queued) : states[k].queued[j] = eventTs

\* The state of key k after begin(k, ctl, eventTs).
BeginState(k, ctl, eventTs) ==
  [states[k] EXCEPT !.inProgress = TRUE, !.abortController = ctl,
                    !.activeEventTs = eventTs]

tryBeginResult_Always(k) == TRUE

\* What tryBegin(k, ...) returns.
tryBeginResult(k) == ~states[k].inProgress

TryBeginState_SetsController(k, ctl, eventTs) ==
  IF tryBeginResult(k) THEN BeginState(k, ctl, eventTs)
  ELSE [states[k] EXCEPT !.abortController = ctl, !.activeEventTs = eventTs]

\* The state of key k after tryBegin(k, ctl, eventTs).
TryBeginState(k, ctl, eventTs) ==
  IF tryBeginResult(k) THEN BeginState(k, ctl, eventTs) ELSE states[k]

EndState_KeepsQueued(k) ==
  [states[k] EXCEPT !.inProgress = FALSE, !.abortController = NoController,
                    !.activeEventTs = NoEvent]

\* The state of key k after end(k); end returns the former queued and
\* busyMessages.
EndState(k) ==
  [inProgress |-> FALSE, abortController |-> NoController,
   queued |-> <<>>, busyMessages |-> <<>>, activeEventTs |-> NoEvent]

EndResult(k) ==
  [queued |-> states[k].queued, busyMessages |-> states[k].busyMessages]

\* The state of key k after queueMention(k, event, busyMessageTs); a falsy
\* busyMessageTs (here 0) is not recorded.
QueueMentionState(k, e, busyTs) ==
  [states[k] EXCEPT !.queued = Append(@, e),
                    !.busyMessages = IF busyTs # 0 THEN Append(@, busyTs) ELSE @]

requestInterruptResult(k) == states[k].abortController # NoController

\* ------------------------------------------------- runCodexAndPost: data
\* Texts are records: s is the sentence, arg the error text an apology ends
\* with, elapsed the seconds a progress text reports.
Text(str) == [s |-> str, arg |-> "", elapsed |-> 0]
EmptyText == Text("")
NullError == "<null>"

\* What a chat message shows: its text and the kind of its blocks
\* ("thinking": buildThinkingBlocks with the Cancel button, "section": one
\* plain section, "output": the blocks of the agent's reply).
Content(text, blocks) == [text |-> text, blocks |-> blocks]
NoMessage == Content(EmptyText, "none")
ThinkingContent == Content(Text("Thinking..."), "thinking")

\* JSON values the agent can return.  text and blocks say what the field
\* holds, attachments whether the field is present, whether it is an array
\* and, for each entry, whether its path is a string and whether its
\* filename and title, where present, are strings.
Payload(kind, text, blocks, defined, isArray, items) ==
  [kind |-> kind, text |-> text, blocks |-> blocks,
   attachments |-> [defined |-> defined, isArray |-> isArray, items |-> items]]
Entry(path) == [pathIsString |-> TRUE, path |-> path, namesOk |-> TRUE]
NotAString == "<not a string>"
EntryNoPath == [pathIsString |-> FALSE, path |-> NotAString, namesOk |-> TRUE]
EntryBadName == [pathIsString |-> TRUE, path |-> "/tmp/x.txt", namesOk |-> FALSE]
NullPayload == Payload("null", NotAString, "missing", FALSE, FALSE, <<>>)
PDone == Payload("object", "Done", "array", FALSE, FALSE, <<>>)
PWithFile == Payload("object", "Report", "array", TRUE, TRUE, <<Entry("/tmp/x.txt")>>)
PNoBlocks == Payload("object", "Done", "missing", FALSE, FALSE, <<>>)
PNotJson == Payload("string", NotAString, "missing", FALSE, FALSE, <<>>)
PTextNotString == Payload("object", NotAString, "array", FALSE, FALSE, <<>>)
PAttachNotArray == Payload("object", "Report", "array", TRUE, FALSE, <<>>)
PNoPath ==
  Payload("object", "Report", "array", TRUE, TRUE, <<Entry("/tmp/x.txt"), EntryNoPath>>)
PBadName == Payload("object", "Report", "array", TRUE, TRUE, <<EntryBadName>>)
Payloads ==
  {NullPayload, PDone, PWithFile, PNoBlocks, PNotJson, PTextNotString,
   PAttachNotArray, PNoPath, PBadName}

\* JavaScript truthiness of a structured output.
Truthy(p) == p.kind # "null"

\* The output contract (spec section 6): text a string, blocks an array,
\* attachments absent or an array of entries with a string path.
WellFormed(p) ==
  /\ p.kind = "object"
  /\ p.text # NotAString
  /\ p.blocks = "array"
  /\ p.attachments.defined =>
       /\ p.attachments.isArray
       /\ \A j \in 1..Len(p.attachments.items) : p.attachments.items[j].pathIsString

coerceBlockKitMessage_AcceptAll(p) == TRUE
coerceBlockKitMessage_NoPathCheck(p) ==
  /\ p.kind = "object" /\ p.text # NotAString /\ p.blocks = "array"
  /\ p.attachments.defined => p.attachments.isArray

\* coerceBlockKitMessage(payload) # null.
coerceBlockKitMessage(p) ==
  IF ~Truthy(p) \/ p.kind # "object" THEN FALSE
  ELSE IF p.text = NotAString THEN FALSE
  ELSE IF p.blocks # "array" THEN FALSE
  ELSE IF p.attachments.defined
       THEN IF ~p.attachments.isArray THEN FALSE
            ELSE \A j \in 1..Len(p.attachments.items) :
                   /\ p.attachments.items[j].pathIsString
                   /\ p.attachments.items[j].namesOk
       ELSE TRUE

\* output.attachments ?? [] of a coerced message.
RequestedAttachments(p) ==
  IF p.attachments.defined THEN p.attachments.items ELSE <<>>

\* The final text of a stream: none, the empty string, or a text that
\* JSON.parse turns into a payload (safeJsonParse returns the text itself,
\* PNotJson, when it is not JSON).
NoFinalText == [tag |-> "null", value |-> NullPayload]
EmptyFinalText == [tag |-> "empty", value |-> NullPayload]
JsonText(p) == [tag |-> "text", value |-> p]
FinalTexts == {EmptyFinalText} \cup {JsonText(p) : p \in Payloads}
FinalTextTruthy(ft) == ft.tag = "text"

\* extractStructuredOutput(result): result.output when it is defined, else
\* safeJsonParse of the text the result carries.
extractStructuredOutput(ft) == ft.value

\* Values a failed call throws.  isError: error instanceof Error; a thrown
\* string has the name "string", any other thrown value the name "".
Thrown(isError, name, message) ==
  [isError |-> isError, name |-> name, message |-> message]
AbortMessage == "This operation was aborted"
CancelledMessage == "request cancelled by upstream"
AgentThrows ==
  {Thrown(TRUE, "Error", "E1"),
   Thrown(TRUE, "AbortError", AbortMessage),
   Thrown(TRUE, "Error", CancelledMessage),
   Thrown(FALSE, "", "raw")}
SlackThrows == {Thrown(TRUE, "Error", "invalid_blocks")}
StagingThrows == {Thrown(TRUE, "Error", "EISDIR: illegal operation on a directory")}

\* The controller handleAppMention made for the turn was aborted.
SignalAborted == 1 \in aborted

\* What the specification calls a cancellation-shaped failure of the agent
\* call: the cancellation handle is signaled, or the error is an abort or a
\* cancellation by its name or its message.
CancellationShaped(err) ==
  \/ SignalAborted
  \/ err.isError /\ err.name = "AbortError"
  \/ err.isError /\ err.message \in {AbortMessage, CancelledMessage}

isAbortError_SignalOnly(err) == SignalAborted
isAbortError_AnyError(err) == SignalAborted \/ err.isError

\* isAbortError(error, signal).
isAbortError(err) ==
  \/ SignalAborted
  \/ /\ err.isError
     /\ \/ err.name = "AbortError"
        \/ err.message \in {AbortMessage, CancelledMessage}

\* codexResponder.ts:154: the text recorded for a failed agent call.
AgentErrorText(err) == IF err.isError THEN err.message ELSE "Codex stream failed."

\* formatSlackError(error).
formatSlackError(err) ==
  IF err.isError THEN err.message
  ELSE IF err.name = "string" THEN err.message
  ELSE "Unknown Slack error"

MissingFinalResponse == "Codex did not return a final response."
MalformedOutput == "Output must be a JSON object with text, blocks, and attachments (array)."

BasePrompt == "prompt"

buildRetryPrompt_NoOutput(base, error, lastOutput) ==
  [base |-> base, retry |-> TRUE,
   error |-> IF error = NullError THEN "unknown" ELSE error,
   output |-> NullPayload]
buildRetryPrompt_NoError(base, error, lastOutput) ==
  [base |-> base, retry |-> TRUE, error |-> "unknown",
   output |-> IF Truthy(lastOutput) THEN lastOutput ELSE NullPayload]

\* buildRetryPrompt(basePrompt, error, lastOutput): the lines of the prompt
\* that vary.
buildRetryPrompt(base, error, lastOutput) ==
  [base |-> base, retry |-> TRUE,
   error |-> IF error = NullError THEN "unknown" ELSE error,
   output |-> IF Truthy(lastOutput) THEN lastOutput ELSE NullPayload]

FirstPrompt(base) ==
  [base |-> base, retry |-> FALSE, error |-> "", output |-> NullPayload]

\* codexResponder.ts:56: attempt <= 5.
MaxAttempts == 5

FallbackContent_NoError(lastError) ==
  Content(Text("Sorry - I couldn't post a response."), "section")

\* codexResponder.ts:233-245: the apology and its section block (the dash of
\* the source text is written "-").
FallbackContent(lastError) ==
  Content([s |-> "Sorry - I couldn't post a response.",
           arg |-> IF lastError = NullError THEN "" ELSE lastError,
           elapsed |-> 0], "section")

StopContent_Thinking == Content(Text("Okay - I stopped."), "thinking")

\* codexResponder.ts:150-151 and updateFinalMessage.
StopContent == Content(Text("Okay - I stopped."), "section")

ReplyContent_KeepsThinking(p) == Content(Text("Thinking..."), "thinking")

\* codexResponder.ts:194-199: the final edit shows the reply.
ReplyContent(p) == Content(Text(p.text), "output")

\* The period of the progress reporter and the silence it waits for
\* (codexResponder.ts:471, :460).
ReporterPeriodMs == 15000
ReporterIdleMs == 30000

\* Rate limits of the status edits (codexResponder.ts:431, :484, :485).
MinStatusGapMs == 2500
SameStatusGapMs == 15000

\* maybeUpdateStatus: whether it edits the placeholder, and the limiter
\* after it.
StatusAllowed(lim, text, t) ==
  /\ ~(text = lim.lastText /\ t - lim.lastUpdatedAt < SameStatusGapMs)
  /\ ~(t - lim.lastUpdatedAt < MinStatusGapMs)

LimiterAfter_NoStamp(lim, text, t) == lim
LimiterAfter(lim, text, t) ==
  IF StatusAllowed(lim, text, t) THEN [lastText |-> text, lastUpdatedAt |-> t] ELSE lim

\* createStatusLimiter(), and the reset at the head of the loop.
NewLimiter == [lastText |-> EmptyText, lastUpdatedAt |-> 0]

\* ------------------------------------------------- attachments: paths
\* A path is the sequence of its segments; every path here is absolute
\* unless a request says otherwise.  NoPath stands for null.
NoPath == <<"<null>">>

\* path.resolve / path.posix.normalize of the segments: "." is dropped and
\* ".." removes the segment before it.
RECURSIVE NormalizeFrom(_, _)
NormalizeFrom(segs, acc) ==
  IF segs = <<>> THEN acc
  ELSE IF Head(segs) = "." THEN NormalizeFrom(Tail(segs), acc)
  ELSE IF Head(segs) = ".."
       THEN NormalizeFrom(Tail(segs),
                          IF acc = <<>> THEN acc ELSE SubSeq(acc, 1, Len(acc) - 1))
  ELSE NormalizeFrom(Tail(segs), Append(acc, Head(segs)))

Normalize(segs) == NormalizeFrom(segs, <<>>)

\* A requested attachment: its path, absolute or relative, and its optional
\* filename.
NoFilename == "<undefined>"
NamedReq(abs, segs, filename) == [abs |-> abs, segs |-> segs, filename |-> filename]
Req(abs, segs) == NamedReq(abs, segs, NoFilename)

\* normalizeAttachmentPath(candidatePath, workDir).
normalizeAttachmentPath(c, workDir) ==
  IF c.abs THEN Normalize(c.segs) ELSE Normalize(workDir \o c.segs)

\* normalizeContainerPath(candidatePath).
normalizeContainerPath(c) ==
  IF c.abs THEN Normalize(c.segs) ELSE Normalize(<<"workspace">> \o c.segs)

\* First segments s for which "/s..." starts with "/workspace".
StartsWithWorkspace(seg) == seg \in {"workspace", "workspace2"}

\* mapContainerWorkspaceToHost(candidatePath, dataDir): null unless the text
\* starts with /workspace; the leading "/workspace/" is cut and the rest is
\* resolved against the data root (an absolute rest stays as it is).
mapContainerWorkspaceToHost(p, dataDir) ==
  IF p = <<>> \/ ~StartsWithWorkspace(p[1]) THEN NoPath
  ELSE IF p[1] = "workspace" THEN Normalize(dataDir \o Tail(p))
  ELSE p

\* isTempPath(candidatePath).
isTempPath(p) ==
  \/ Len(p) >= 2 /\ p[1] = "tmp"
  \/ Len(p) >= 3 /\ p[1] = "var" /\ p[2] = "tmp"

\* text.startsWith(prefix) for the segment names of the model.
NameStartsWith(seg, prefix) ==
  \/ seg = prefix
  \/ prefix = "work" /\ seg \in {"workspace", "workspace2"}
  \/ prefix = "workspace" /\ seg = "workspace2"

\* isSafePath without the separator after the root: a plain startsWith.
isSafePath_NoSeparator(target, root) ==
  /\ root # <<>>
  /\ Len(root) <= Len(target)
  /\ SubSeq(target, 1, Len(root) - 1) = SubSeq(root, 1, Len(root) - 1)
  /\ NameStartsWith(target[Len(root)], root[Len(root)])

\* isSafePath(targetPath, root): the target is the root or starts with the
\* root followed by the separator.
isSafePath(target, root) ==
  /\ Len(root) <= Len(target)
  /\ SubSeq(target, 1, Len(root)) = root

\* path.basename.
Basename(p) == IF p = <<>> THEN "" ELSE p[Len(p)]

\* The candidate names of ensureUniqueDestination: the name itself, then
\* the stem with "-n" before the extension.
Suffixed(name, n) ==
  IF n = 0 THEN name
  ELSE IF name = "x.txt" THEN (IF n = 1 THEN "x-1.txt" ELSE IF n = 2 THEN "x-2.txt" ELSE "x-3.txt")
  ELSE IF name = "passwd" THEN (IF n = 1 THEN "passwd-1" ELSE IF n = 2 THEN "passwd-2" ELSE "passwd-3")
  ELSE IF name = "d" THEN (IF n = 1 THEN "d-1" ELSE IF n = 2 THEN "d-2" ELSE "d-3")
  ELSE IF name = ".." THEN (IF n = 1 THEN "..-1" ELSE IF n = 2 THEN "..-2" ELSE "..-3")
  ELSE name

\* The roots and the sandbox of the configurations: direct mode with the
\* data root a plain directory or a git working tree, and isolated mode with
\* the default workspace root (config.ts: workDir is /workspace).  dotGit is
\* what fs.stat finds at <dataDir>/.git: "none" (the data root is not a
\* working tree), "dir" (the main working tree of a repository) or "file"
\* (a linked working tree made by git worktree, or a submodule checkout,
\* whose .git is a file that points at the repository).
WorkRoot == <<"work">>
DataRoot == <<"data">>
ContainerWorkRoot == <<"workspace">>
TmpDir == <<"tmp">>
HostSandbox(git) ==
  [mode |-> "host", name |-> "", workDir |-> WorkRoot, dataDir |-> DataRoot,
   dotGit |-> git]
DockerSandbox(git) ==
  [mode |-> "docker", name |-> "sandbox-1", workDir |-> ContainerWorkRoot,
   dataDir |-> DataRoot, dotGit |-> git]
Sandboxes ==
  {HostSandbox("none"), HostSandbox("dir"), HostSandbox("file"),
   DockerSandbox("none")}

\* isGitRepoDir (part_009:303-310): the stat of <dir>/.git succeeds and is a
\* directory.
isGitRepoDir(sb) == sb.dotGit = "dir"

\* The staging root of resolveAttachments (part_009:174-177).
useTempStaging_DockerOnly(sb) == sb.mode = "docker"
useTempStaging(sb) == isGitRepoDir(sb) \/ sb.mode = "docker"
stagingRoot(sb) ==
  IF useTempStaging(sb) THEN TmpDir \o <<"alfred-attachments">>
  ELSE sb.dataDir \o <<"attachments">>

\* The host file system the turns start with, and the files of the
\* container.  /tmp/d is a directory.
HostFiles ==
  {<<"work", "readme.txt">>, <<"data", "x.txt">>, <<"tmp", "x.txt">>,
   <<"etc", "passwd">>, <<"workspace2", "x.txt">>}
HostDirs == {<<"tmp", "d">>}
InitialFiles ==
  [p \in HostFiles \cup HostDirs |-> IF p \in HostDirs THEN "dir" ELSE "file"]
ContainerFiles ==
  {<<"workspace", "x.txt">>, <<"tmp", "x.txt">>, <<"etc", "passwd">>,
   <<"workspace2", "x.txt">>}

\* The path is an entry of the file system.
Exists(fsys, p) == p \in DOMAIN fsys

\* exists(filePath) (part_009:294-301): fs.stat succeeds on an entry and on
\* a directory that holds one.
exists(fsys, p) ==
  \/ Exists(fsys, p)
  \/ \E q \in DOMAIN fsys : Len(q) > Len(p) /\ SubSeq(q, 1, Len(p)) = p

\* The requests of the model.
ReqReadme == Req(FALSE, <<"readme.txt">>)
ReqMissing == Req(TRUE, <<"work", "missing.txt">>)
ReqData == Req(TRUE, <<"data", "x.txt">>)
ReqTmp == Req(TRUE, <<"tmp", "x.txt">>)
ReqTmpDir == Req(TRUE, <<"tmp", "d">>)
ReqPasswd == Req(TRUE, <<"etc", "passwd">>)
ReqWorkspace == Req(TRUE, <<"workspace", "x.txt">>)
\* Paths that leave the roots through "..", a path under a directory whose
\* name starts with the name of a root, and a filename that names the
\* parent directory.
ReqEscape == Req(FALSE, <<"..", "etc", "passwd">>)
ReqTmpEscape == Req(TRUE, <<"tmp", "..", "etc", "passwd">>)
ReqSibling == Req(TRUE, <<"workspace2", "x.txt">>)
ReqNamedParent == NamedReq(TRUE, <<"tmp", "x.txt">>, "..")
Requests ==
  {ReqReadme, ReqMissing, ReqData, ReqTmp, ReqTmpDir, ReqPasswd, ReqWorkspace,
   ReqEscape, ReqTmpEscape, ReqSibling, ReqNamedParent}

\* Failure reasons of resolveAttachments.
FileNotFound == "File not found."
TempFileNotFound == "Temp file not found."
OutOfBounds == "Attachment path must be inside the workspace or data directory."
CopyFailed == "docker cp failed"

\* The branch resolveAttachments takes for a request (part_009:181-230):
\* "direct" (inside a root: existence check of hostPath), "temp" (direct
\* mode, temp path: existence check, then a staged copy), "copyOut"
\* (isolated mode: copy out of the container), "reject".
HostPathOf(sb, c) ==
  IF sb.mode = "docker"
  THEN mapContainerWorkspaceToHost(normalizeAttachmentPath(c, sb.workDir), sb.dataDir)
  ELSE normalizeAttachmentPath(c, sb.workDir)

BranchOf(sb, c) ==
  LET cand == normalizeAttachmentPath(c, sb.workDir)
      hostPath == HostPathOf(sb, c) IN
  IF hostPath # NoPath /\ (isSafePath(hostPath, sb.workDir) \/ isSafePath(hostPath, sb.dataDir))
  THEN "direct"
  ELSE IF sb.mode = "host" /\ isTempPath(cand) THEN "temp"
  ELSE IF sb.mode = "docker" /\ sb.name # "" THEN "copyOut"
  ELSE "reject"

\* The variables of the attachment stage while no stage is modelled.
Runs == {"A", "B"}
IdleJob ==
  [pc |-> "idle", reqs |-> <<>>, i |-> 1, n |-> 0, dest |-> NoPath,
   log |-> <<>>, cleanup |-> <<>>, copies |-> <<>>, u |-> 1,
   uploaded |-> <<>>, uploadFailed |-> <<>>, followUps |-> 0,
   unlinked |-> {}, err |-> ""]
InitAttachIdle ==
  /\ sandbox = HostSandbox("none")
  /\ files = InitialFiles
  /\ jobs = [r \in Runs |-> IdleJob]

\* The handleAction invocation while none is modelled.  kind is what the
\* body's action is: "interrupt" (the Cancel button of the placeholder,
\* action_id interrupt-run), "submit" (any other button) or "checkbox".
IdleAction ==
  [pc |-> "idle", kind |-> "submit", hasChannel |-> TRUE, key |-> "T1",
   activeAtPress |-> FALSE, hadRecord |-> FALSE, sessionCalled |-> FALSE,
   ran |-> FALSE]
\* The backfill poller and the ThreadStore while none is modelled.
IdlePoll == [pc |-> "idle"]
IdleDisk == [pc |-> "idle"]
InitActionIdle ==
  /\ act = IdleAction
  /\ poll = IdlePoll
  /\ disk = IdleDisk

\* The variables of a turn while no turn is modelled.
IdleTurn ==
  [pc |-> "idle", streaming |-> FALSE, attempt |-> 0, lastError |-> NullError,
   lastOutput |-> NullPayload, attemptPrompt |-> FirstPrompt(BasePrompt),
   agentCalls |-> 0, limiter |-> NewLimiter,
   progress |-> [startedAt |-> 0, lastEventAt |-> 0, lastStatus |-> Text("Thinking...")],
   reporterOn |-> FALSE, finalText |-> NoFinalText, sawTurnCompleted |-> FALSE,
   structured |-> NullPayload, nEvents |-> 0, ticks |-> 0]

NoGhost ==
  [started |-> FALSE, outcome |-> "none", failText |-> NullError, failAttempt |-> 0,
   allMalformed |-> TRUE, editRejected |-> FALSE, cancelled |-> FALSE,
   uploaded |-> FALSE, thinkingPosts |-> 0,
   statusAttempt |-> 0, statusAt |-> 0, statusText |-> EmptyText,
   prevPayload |-> NullPayload, lastPayload |-> NullPayload]

\* Date.now() when the turn starts; createStatusLimiter's lastUpdatedAt of 0
\* is further in the past than any rate limit.
StartTime == 4 * SameStatusGapMs

InitTurnIdle ==
  /\ turn = IdleTurn
  /\ placeholder = NoMessage
  /\ now = StartTime
  /\ ghost = NoGhost

\* ---------------------------------------------------------------- SpecWork
\* The public methods of ThreadWorkManager, called in any order.  begin is
\* called the way its callers call it: after isBusy returned false.

\* History of the harness: the events and busy-notice ids passed to
\* queueMention for a key since the last end for that key.
NothingQueued == [queued |-> <<>>, busy |-> <<>>]

WorkCall(k) == calls < MaxCalls /\ calls' = calls + 1 /\ k \in Keys

TryBegin(k) ==
  /\ WorkCall(k)
  /\ states' = [states EXCEPT ![k] = TryBeginState(k, calls + 1, NoEvent)]
  /\ tryLog' = [tryLog EXCEPT ![k] = Append(@, tryBeginResult(k))]
  /\ idleAtFirstTry' = [idleAtFirstTry EXCEPT
                          ![k] = IF tryLog[k] = <<>> THEN ~states[k].inProgress ELSE @]
  /\ lastCall' = [op |-> "tryBegin", key |-> k, result |-> tryBeginResult(k),
                  before |-> states[k], returned |-> <<>>,
                  returnedBusy |-> <<>>, expected |-> NothingQueued,
                  sinceEnd |-> lastCall.sinceEnd]
  /\ UNCHANGED <<storeVars, backfillVars, actionVars, attachVars, aborted, mentionVars, turnVars>>

Begin(k) ==
  /\ WorkCall(k)
  /\ ~isBusy(k)
  /\ states' = [states EXCEPT ![k] = BeginState(k, calls + 1, NoEvent)]
  /\ lastCall' = [op |-> "begin", key |-> k, result |-> TRUE,
                  before |-> states[k], returned |-> <<>>,
                  returnedBusy |-> <<>>, expected |-> NothingQueued,
                  sinceEnd |-> lastCall.sinceEnd]
  /\ UNCHANGED <<storeVars, backfillVars, actionVars, attachVars, aborted, tryLog, idleAtFirstTry, mentionVars, turnVars>>

End(k) ==
  /\ WorkCall(k)
  /\ states' = [states EXCEPT ![k] = EndState(k)]
  /\ tryLog' = [tryLog EXCEPT ![k] = <<>>]
  /\ idleAtFirstTry' = [idleAtFirstTry EXCEPT ![k] = FALSE]
  /\ lastCall' = [op |-> "end", key |-> k, result |-> TRUE,
                  before |-> states[k], returned |-> EndResult(k).queued,
                  returnedBusy |-> EndResult(k).busyMessages,
                  expected |-> lastCall.sinceEnd[k],
                  sinceEnd |-> [lastCall.sinceEnd EXCEPT ![k] = NothingQueued]]
  /\ UNCHANGED <<storeVars, backfillVars, actionVars, attachVars, aborted, mentionVars, turnVars>>

QueueMention(k, e) ==
  /\ WorkCall(k)
  /\ e \in Events
  /\ \E busyTs \in {0, 10 + e} :
       /\ states' = [states EXCEPT ![k] = QueueMentionState(k, e, busyTs)]
       /\ lastCall' = [op |-> "queueMention", key |-> k, result |-> TRUE,
                       before |-> states[k], returned |-> <<>>,
                       returnedBusy |-> <<>>, expected |-> NothingQueued,
                       sinceEnd |-> [lastCall.sinceEnd EXCEPT
                          ![k].queued = Append(@, e),
                          ![k].busy = IF busyTs # 0 THEN Append(@, busyTs) ELSE @]]
  /\ UNCHANGED <<storeVars, backfillVars, actionVars, attachVars, aborted, tryLog, idleAtFirstTry, mentionVars, turnVars>>

HasSeenMention(k, e) ==
  /\ WorkCall(k)
  /\ e \in Events
  /\ lastCall' = [op |-> "hasSeenMention", key |-> k, result |-> hasSeenMention(k, e),
                  before |-> states[k], returned |-> <<>>,
                  returnedBusy |-> <<>>, expected |-> NothingQueued,
                  sinceEnd |-> lastCall.sinceEnd]
  /\ UNCHANGED <<storeVars, backfillVars, actionVars, attachVars, workVars, tryLog, idleAtFirstTry, mentionVars, turnVars>>

RequestInterrupt(k) ==
  /\ WorkCall(k)
  /\ aborted' = IF requestInterruptResult(k)
                THEN aborted \cup {states[k].abortController} ELSE aborted
  /\ lastCall' = [op |-> "requestInterrupt", key |-> k,
                  result |-> requestInterruptResult(k),
                  before |-> states[k], returned |-> <<>>,
                  returnedBusy |-> <<>>, expected |-> NothingQueued,
                  sinceEnd |-> lastCall.sinceEnd]
  /\ UNCHANGED <<storeVars, backfillVars, actionVars, attachVars, states, tryLog, idleAtFirstTry, mentionVars, turnVars>>

InitWorkState ==
  /\ states = [k \in Keys |-> NewState]
  /\ aborted = {}

InitHarness ==
  /\ calls = 0
  /\ tryLog = [k \in Keys |-> <<>>]
  /\ idleAtFirstTry = [k \in Keys |-> FALSE]
  /\ lastCall = [op |-> "none", key |-> "T1", result |-> FALSE,
                 before |-> NewState, returned |-> <<>>,
                 returnedBusy |-> <<>>, expected |-> NothingQueued,
                 sinceEnd |-> [k \in Keys |-> NothingQueued]]

InitMention ==
  /\ invs = <<>>
  /\ delivered = 0
  /\ store = [k \in Keys |-> NoRecord]

InitWork == InitWorkState /\ InitHarness /\ InitMention /\ InitTurnIdle /\ InitAttachIdle
  /\ InitActionIdle

NextWork ==
  \/ \E k \in Keys : TryBegin(k)
  \/ \E k \in Keys : Begin(k)
  \/ \E k \in Keys : End(k)
  \/ \E k \in Keys, e \in Events : QueueMention(k, e)
  \/ \E k \in Keys, e \in Events : HasSeenMention(k, e)
  \/ \E k \in Keys : RequestInterrupt(k)

vars ==
  <<workVars, harnessVars, mentionVars, turnVars, attachVars, actionVars,
    backfillVars, storeVars>>

SpecWork == InitWork /\ [][NextWork]_vars

\* ------------------------------------------------------------- SpecMention
\* handleAppMention.  Every invocation is a record; pc is the await it is
\* suspended at.  The event source (live events and the backfill poller)
\* delivers an event any number of times; flushQueuedMentions re-invokes the
\* handler for a queued event.  Consecutive awaits between which the handler
\* touches nothing that another invocation reads (the session, the thread
\* history and the turn; deleting the busy notices and persisting the store)
\* are one step, taken when the last of them settles.

NewInv(e, src, parent) ==
  [event |-> e, key |-> KeyOf(e), src |-> src, parent |-> parent, pc |-> "ack",
   hadRecord |-> FALSE, foundBusy |-> FALSE, began |-> FALSE, ended |-> FALSE,
   idleAfterEnd |-> FALSE, sessionCalled |-> FALSE, turnCalled |-> FALSE,
   threw |-> FALSE, turnThrew |-> FALSE, queuedMentions |-> <<>>,
   busyMessages |-> <<>>, replayed |-> <<>>, queuedWhileBusy |-> FALSE,
   afterCompletedTurn |-> FALSE]

Finished(i) == invs[i].pc \in {"done", "failed"}

\* History: some invocation for key k had runCodexAndPost return a response
\* on a new or resumed session (its record is stored at lines 112-124).
CompletedTurn(k) ==
  \E j \in 1..Len(invs) :
    invs[j].key = k /\ invs[j].turnCalled /\ invs[j].ended /\ ~invs[j].threw

\* mentionHandler.ts:31-65, after await ack(): the busy check and, on an
\* idle thread, store.get, work.begin and the call of resumeThread or
\* startThread.  AckInv is the invocation r (the i-th) after this segment,
\* AckStates the work states after it.
AckInv(r, i) ==
  IF isBusy(r.key)
  THEN [r EXCEPT !.foundBusy = TRUE,
                 !.pc = IF hasSeenMention(r.key, r.event) THEN "done" ELSE "busyPost"]
  ELSE [r EXCEPT !.began = TRUE, !.pc = "run", !.sessionCalled = TRUE,
                 !.hadRecord = (store[r.key] # NoRecord),
                 !.afterCompletedTurn = CompletedTurn(r.key)]

AckStates(r, i) ==
  IF isBusy(r.key) THEN states
  ELSE [states EXCEPT ![r.key] = BeginState(r.key, i, r.event)]

\* app.event('app_mention') (app.ts) and the backfill poller's runOnce call
\* the handler, which runs up to its first await after ack().  Events are
\* numbered in the order of their first delivery.
Deliver(e) ==
  LET i == Len(invs) + 1
      r == NewInv(e, "event", 0) IN
  /\ delivered < MaxDeliveries
  /\ \A d \in 1..(e - 1) : \E j \in 1..Len(invs) : invs[j].event = d
  /\ delivered' = delivered + 1
  /\ invs' = Append(invs, AckInv(r, i))
  /\ states' = AckStates(r, i)
  /\ UNCHANGED <<storeVars, backfillVars, actionVars, attachVars, aborted, harnessVars, turnVars, store>>

\* The same segment of an invocation made by flushQueuedMentions, whose
\* await ack() yields to the continuations that are already scheduled.
AfterAck(i) ==
  /\ invs[i].pc = "ack"
  /\ invs' = [invs EXCEPT ![i] = AckInv(invs[i], i)]
  /\ states' = AckStates(invs[i], i)
  /\ UNCHANGED <<storeVars, backfillVars, actionVars, attachVars, aborted, harnessVars, turnVars, delivered, store>>

\* mentionHandler.ts:41-48: postBusyMessage returned a message (ts) or null;
\* the mention is queued.
AfterBusyPost(i) ==
  LET k == invs[i].key  e == invs[i].event IN
  /\ invs[i].pc = "busyPost"
  /\ \E busyTs \in {0, 10 + i} :
       states' = [states EXCEPT ![k] = QueueMentionState(k, e, busyTs)]
  /\ invs' = [invs EXCEPT ![i].pc = "done", ![i].queuedWhileBusy = isBusy(k)]
  /\ UNCHANGED <<storeVars, backfillVars, actionVars, attachVars, aborted, harnessVars, turnVars, delivered, store>>

FinallyBlock_NoEndOnThrow(i, thrown, ran) ==
  LET k == invs[i].key IN
  /\ states' = IF thrown THEN states ELSE [states EXCEPT ![k] = EndState(k)]
  /\ invs' = [invs EXCEPT ![i].ended = ~thrown, ![i].threw = thrown,
                ![i].turnThrew = thrown /\ ran, ![i].turnCalled = ran,
                ![i].idleAfterEnd = ~thrown,
                ![i].queuedMentions = IF thrown THEN <<>> ELSE EndResult(k).queued,
                ![i].busyMessages = IF thrown THEN <<>> ELSE EndResult(k).busyMessages,
                ![i].pc = "deleteBusy"]

\* mentionHandler.ts:106-110, the finally block up to the await of
\* deleteBusyMessages: work.end and the backlog it returns.  thrown: the try
\* block threw; ran: runCodexAndPost was called.
FinallyBlock(i, thrown, ran) ==
  LET k == invs[i].key IN
  /\ states' = [states EXCEPT ![k] = EndState(k)]
  /\ invs' = [invs EXCEPT ![i].ended = TRUE, ![i].threw = thrown,
                ![i].turnThrew = thrown /\ ran, ![i].turnCalled = ran,
                ![i].idleAfterEnd = ~EndState(k).inProgress,
                ![i].queuedMentions = EndResult(k).queued,
                ![i].busyMessages = EndResult(k).busyMessages,
                ![i].pc = "deleteBusy"]

\* mentionHandler.ts:63-91: resumeThread/startThread threw, or
\* conversations.replies threw twice (retryOnce), or a download threw.
PrepareThrow(i) ==
  /\ invs[i].pc = "run"
  /\ FinallyBlock(i, TRUE, FALSE)
  /\ UNCHANGED <<storeVars, backfillVars, actionVars, attachVars, aborted, harnessVars, turnVars, delivered, store>>

\* mentionHandler.ts:63-105: the session, the history and the prompt were
\* obtained and runCodexAndPost returned a response (the reply, the apology
\* or the stop text).
TurnReturn(i) ==
  /\ invs[i].pc = "run"
  /\ FinallyBlock(i, FALSE, TRUE)
  /\ UNCHANGED <<storeVars, backfillVars, actionVars, attachVars, aborted, harnessVars, turnVars, delivered, store>>

\* As TurnReturn, but runCodexAndPost threw (codexResponder.ts:53 and :248).
TurnThrow(i) ==
  /\ invs[i].pc = "run"
  /\ FinallyBlock(i, TRUE, TRUE)
  /\ UNCHANGED <<storeVars, backfillVars, actionVars, attachVars, aborted, harnessVars, turnVars, delivered, store>>

\* mentionHandler.ts:109-110: deleteBusyMessages is over and the throw of the
\* try block leaves the function; nothing after the finally block runs.
PropagateThrow(i) ==
  /\ invs[i].pc = "deleteBusy"
  /\ invs[i].threw
  /\ invs' = [invs EXCEPT ![i].pc = "failed"]
  /\ UNCHANGED <<storeVars, backfillVars, actionVars, attachVars, workVars, harnessVars, turnVars, delivered, store>>

FlushTargets_All(queued) == queued

\* flushQueuedMentions (mentionHandler.ts:221-226): the handler is invoked
\* again for the last queued event only.
FlushTargets(queued) == IF queued = <<>> THEN <<>> ELSE <<Last(queued)>>

\* mentionHandler.ts:112-131: deleteBusyMessages is over, the record was put
\* in the store and persisted; the queued mentions are flushed.
StoreReturn(i) ==
  LET k == invs[i].key
      targets == FlushTargets(invs[i].queuedMentions) IN
  /\ invs[i].pc = "deleteBusy"
  /\ ~invs[i].threw
  /\ store' = [store EXCEPT ![k] = "session"]
  /\ IF Len(invs[i].queuedMentions) > 0
     THEN invs' = [invs EXCEPT ![i].pc = "flush", ![i].replayed = targets]
                  \o [j \in 1..Len(targets) |-> NewInv(targets[j], "replay", i)]
     ELSE invs' = [invs EXCEPT ![i].pc = "done"]
  /\ UNCHANGED <<storeVars, backfillVars, actionVars, attachVars, workVars, harnessVars, turnVars, delivered>>

\* mentionHandler.ts:120-124: the record was put in the store's map but
\* ThreadStore.persist threw; the throw leaves the function.
StoreThrow(i) ==
  LET k == invs[i].key IN
  /\ invs[i].pc = "deleteBusy"
  /\ ~invs[i].threw
  /\ store' = [store EXCEPT ![k] = "session"]
  /\ invs' = [invs EXCEPT ![i].pc = "failed", ![i].threw = TRUE]
  /\ UNCHANGED <<storeVars, backfillVars, actionVars, attachVars, workVars, harnessVars, turnVars, delivered>>

\* mentionHandler.ts:130: the awaited re-invocation finished; its throw is
\* the throw of this invocation.
FlushReturn(i) ==
  /\ invs[i].pc = "flush"
  /\ \A j \in 1..Len(invs) : invs[j].parent = i => Finished(j)
  /\ invs' = [invs EXCEPT
       ![i].pc = IF \E j \in 1..Len(invs) : invs[j].parent = i /\ invs[j].pc = "failed"
                 THEN "failed" ELSE "done"]
  /\ UNCHANGED <<storeVars, backfillVars, actionVars, attachVars, workVars, harnessVars, turnVars, delivered, store>>

InitMentionSpec ==
  InitWorkState /\ InitHarness /\ InitMention /\ InitTurnIdle /\ InitAttachIdle
  /\ InitActionIdle

NextMention ==
  \/ \E e \in Events : Deliver(e)
  \/ \E i \in 1..Len(invs) : AfterAck(i)
  \/ \E i \in 1..Len(invs) : AfterBusyPost(i)
  \/ \E i \in 1..Len(invs) : PrepareThrow(i)
  \/ \E i \in 1..Len(invs) : TurnReturn(i)
  \/ \E i \in 1..Len(invs) : TurnThrow(i)
  \/ \E i \in 1..Len(invs) : PropagateThrow(i)
  \/ \E i \in 1..Len(invs) : StoreReturn(i)
  \/ \E i \in 1..Len(invs) : StoreThrow(i)
  \/ \E i \in 1..Len(invs) : FlushReturn(i)

SpecMention == InitMentionSpec /\ [][NextMention]_vars

\* ---------------------------------------------------------------- SpecTurn
\* One call of runCodexAndPost, made by handleAppMention after work.begin.
\* turn.pc is the await the call is suspended at: "agent" (runStreamed, the
\* next stream event, or run), "deliver" (the stream is over or run has
\* returned; lines 138-199 up to the result of the final chat.update),
\* "attach" (resolveAttachments and the uploads).  A chat call is made and
\* answered in the step that issues it: the chat API accepts or rejects it.

\* The state in which handleAppMention calls runCodexAndPost: the thread key
\* is running with the turn's AbortController; the thread may or may not
\* offer runStreamed.
InitTurn ==
  /\ states = [k \in Keys |->
                 IF k = "T1"
                 THEN [NewState EXCEPT !.inProgress = TRUE, !.abortController = 1,
                                       !.activeEventTs = 1]
                 ELSE NewState]
  /\ aborted = {}
  /\ InitHarness
  /\ InitMention
  /\ InitAttachIdle
  /\ InitActionIdle
  /\ \E st \in BOOLEAN : turn = [IdleTurn EXCEPT !.pc = "start", !.streaming = st]
  /\ placeholder = NoMessage
  /\ now = StartTime
  /\ ghost = NoGhost

TurnOver == turn.pc \in {"done", "thrown"}

\* codexResponder.ts:56-82 (and :142): the head of the loop for attempt k up
\* to the call of the agent; err and out are lastError and lastOutput.
AttemptTurn(k, err, out) ==
  [turn EXCEPT
     !.pc = "agent", !.attempt = k, !.lastError = err, !.lastOutput = out,
     !.attemptPrompt = IF k = 1 THEN FirstPrompt(BasePrompt)
                       ELSE buildRetryPrompt(BasePrompt, err, out),
     !.limiter = IF k > 1 THEN LimiterAfter(NewLimiter, Text("Retrying..."), now)
                 ELSE NewLimiter,
     !.progress = [startedAt |-> now, lastEventAt |-> now,
                   lastStatus |-> Text("Thinking...")],
     !.reporterOn = TRUE, !.agentCalls = @ + 1, !.finalText = NoFinalText,
     !.sawTurnCompleted = FALSE, !.structured = NullPayload]

\* codexResponder.ts:60-62: the 'Retrying...' status edit of attempts 2..5.
AttemptPlaceholder(k, editOk) ==
  IF k > 1 /\ StatusAllowed(NewLimiter, Text("Retrying..."), now) /\ editOk
  THEN Content(Text("Retrying..."), "thinking")
  ELSE placeholder

\* The history of the status edits: maybeUpdateStatus got past its two
\* returns in attempt k at time t and issued the edit of the placeholder to
\* text (codexResponder.ts:487-494), whether or not the chat API took it.
StatusIssued(g, text, k, t) ==
  [g EXCEPT !.statusAttempt = k, !.statusAt = t, !.statusText = text]

\* The history of the payloads.  prevPayload is what the attempt before the
\* current one returned (NullPayload: nothing), lastPayload the structured
\* output of the latest attempt that got a final response from the agent.
\* Returned: the attempt that ends got a final response with the structured
\* output p (NullPayload when the final text holds none).
Returned(g, p) ==
  [g EXCEPT !.prevPayload = p, !.lastPayload = p]

\* The attempt that ends got no final response: the agent call threw or
\* returned neither a structured output nor a final text.
NoResponse(g) ==
  [g EXCEPT !.prevPayload = NullPayload]

\* The history of a failed attempt: the error text its failure recorded.
Failed(g, text) ==
  [g EXCEPT !.failText = text, !.failAttempt = turn.attempt]

\* continue (and the end of the catch block at :226-230): the next attempt
\* or, after the last one, the apology edit (:233-249), which returns when
\* the chat API accepts it and throws when it rejects it.
Continue(err, out, editOk, g) ==
  IF turn.attempt < MaxAttempts
  THEN /\ turn' = AttemptTurn(turn.attempt + 1, err, out)
       /\ placeholder' = AttemptPlaceholder(turn.attempt + 1, editOk)
       /\ ghost' = IF StatusAllowed(NewLimiter, Text("Retrying..."), now)
                   THEN StatusIssued(g, Text("Retrying..."), turn.attempt + 1, now)
                   ELSE g
  ELSE /\ turn' = [turn EXCEPT !.pc = IF editOk THEN "done" ELSE "thrown",
                     !.attempt = @ + 1, !.lastError = err, !.lastOutput = out,
                     !.reporterOn = FALSE]
       /\ placeholder' = IF editOk THEN FallbackContent(err) ELSE placeholder
       /\ ghost' = [g EXCEPT !.outcome = IF editOk THEN "apology" ELSE "threw"]

\* codexResponder.ts:45-54: the placeholder is posted, or the post throws or
\* returns no ts.
PostThinking(ok) ==
  /\ turn.pc = "start"
  /\ IF ok
     THEN /\ turn' = AttemptTurn(1, NullError, NullPayload)
          /\ placeholder' = ThinkingContent
          /\ ghost' = [ghost EXCEPT !.started = TRUE, !.thinkingPosts = @ + 1]
     ELSE /\ turn' = [turn EXCEPT !.pc = "thrown"]
          /\ ghost' = [ghost EXCEPT !.outcome = "threw"]
          /\ UNCHANGED placeholder
  /\ UNCHANGED <<storeVars, backfillVars, actionVars, attachVars, workVars, harnessVars, mentionVars, now>>

\* Time passes while the agent works; the clock is read only at the head of an
\* attempt, by the status edits of the stream and by the progress reporter.
Tick(d) ==
  /\ turn.pc \in {"agent", "summarizer"}
  /\ turn.ticks < MaxTicks
  /\ now' = now + d
  /\ turn' = [turn EXCEPT !.ticks = @ + 1]
  /\ UNCHANGED <<storeVars, backfillVars, actionVars, attachVars, workVars, harnessVars, mentionVars, placeholder, ghost>>

\* The Cancel button: requestInterrupt(key) aborts the turn's controller.
InterruptTurn ==
  /\ turn.pc \in {"start", "agent", "summarizer", "deliver", "attach"}
  /\ requestInterruptResult("T1")
  /\ ~SignalAborted
  /\ aborted' = aborted \cup {states["T1"].abortController}
  /\ UNCHANGED <<storeVars, backfillVars, actionVars, attachVars, states, harnessVars, mentionVars, turnVars>>

\* The stream events that do not end the attempt by themselves.
Ev(type, itemType, ft) == [type |-> type, itemType |-> itemType, text |-> ft]
StreamEvents ==
  {Ev("thread.started", "", NoFinalText), Ev("turn.started", "", NoFinalText),
   Ev("turn.completed", "", NoFinalText),
   Ev("item.completed", "agent_message", NoFinalText)}
  \cup {Ev("item.completed", "agent_message", ft) : ft \in FinalTexts}

\* statusFromEvent / statusFromItem; EmptyText stands for null.
statusFromEvent(ev) ==
  IF ev.type = "turn.started" THEN Text("Thinking...")
  ELSE IF ev.type = "turn.completed" THEN Text("Finalizing response...")
  ELSE IF ev.type = "item.started" /\ ev.itemType = "command_execution"
       THEN Text("Running: command")
  ELSE IF ev.type = "item.completed" /\ ev.itemType = "agent_message"
       THEN Text("Finalizing response...")
  ELSE EmptyText

\* What the status summarizer gives for an event (EmptyText: null).
Summaries == {EmptyText}

\* shouldAttemptStatusUpdate(limiter).
shouldAttemptStatusUpdate(lim, t) == ~(t - lim.lastUpdatedAt < MinStatusGapMs)

\* codexResponder.ts:83-137: one event of the stream is consumed.  summary is
\* what the status summarizer gave (EmptyText: none or no summarizer).
StreamEvent(ev, summary, editOk) ==
  LET statusText == statusFromEvent(ev)
      attemptIt == statusText # EmptyText /\ shouldAttemptStatusUpdate(turn.limiter, now)
      nextStatus == IF summary # EmptyText THEN summary ELSE statusText
      ft == IF ev.type = "item.completed" /\ ev.itemType = "agent_message"
               /\ ev.text # NoFinalText
            THEN ev.text ELSE turn.finalText
      saw == turn.sawTurnCompleted \/ ev.type = "turn.completed"
      break == FinalTextTruthy(ft) /\ saw
  IN
  /\ turn.pc = "agent" /\ turn.streaming
  /\ turn.nEvents < MaxStreamEvents
  /\ ~attemptIt => (summary = EmptyText /\ editOk)
  /\ turn' = [turn EXCEPT
       !.nEvents = @ + 1, !.finalText = ft, !.sawTurnCompleted = saw,
       !.progress = [@ EXCEPT !.lastEventAt = now,
                       !.lastStatus = IF attemptIt THEN nextStatus
                                      ELSE IF statusText # EmptyText THEN statusText
                                      ELSE @],
       !.limiter = IF attemptIt THEN LimiterAfter(@, nextStatus, now) ELSE @,
       !.pc = IF break THEN "deliver" ELSE "agent"]
  /\ placeholder' = IF attemptIt /\ StatusAllowed(turn.limiter, nextStatus, now) /\ editOk
                    THEN Content(nextStatus, "thinking") ELSE placeholder
  /\ ghost' = IF attemptIt /\ StatusAllowed(turn.limiter, nextStatus, now)
              THEN StatusIssued(ghost, nextStatus, turn.attempt, now) ELSE ghost
  /\ UNCHANGED <<storeVars, backfillVars, actionVars, attachVars, workVars, harnessVars, mentionVars, now>>

\* codexResponder.ts:112-124: the loop awaits createStatusSummarizer (line
\* 114) or summarizer.summarize (line 117) inline, without a timeout and
\* without the turn's abort signal, and the helper's agent call does not
\* settle.  The loop stays at the await: no further event is consumed.  The
\* progress reporter's timer and the Cancel button go on.
SummarizerNeverSettles(ev) ==
  LET statusText == statusFromEvent(ev) IN
  /\ turn.pc = "agent" /\ turn.streaming
  /\ turn.nEvents < MaxStreamEvents
  /\ statusText # EmptyText /\ shouldAttemptStatusUpdate(turn.limiter, now)
  /\ turn' = [turn EXCEPT
       !.pc = "summarizer", !.nEvents = @ + 1,
       !.progress = [@ EXCEPT !.lastEventAt = now],
       !.sawTurnCompleted = @ \/ ev.type = "turn.completed",
       !.finalText = IF ev.type = "item.completed" /\ ev.itemType = "agent_message"
                        /\ ev.text # NoFinalText
                     THEN ev.text ELSE @]
  /\ UNCHANGED <<storeVars, backfillVars, actionVars, attachVars, workVars, harnessVars, mentionVars, placeholder, now, ghost>>

\* The stream ends without the break of line 134.
StreamEnd ==
  /\ turn.pc = "agent" /\ turn.streaming
  /\ turn' = [turn EXCEPT !.pc = "deliver"]
  /\ UNCHANGED <<storeVars, backfillVars, actionVars, attachVars, workVars, harnessVars, mentionVars, placeholder, now, ghost>>

\* codexResponder.ts:142-145: thread.run returned a result whose output is p.
RunReturn(p) ==
  /\ turn.pc = "agent" /\ ~turn.streaming
  /\ turn' = [turn EXCEPT !.pc = "deliver",
                !.structured = extractStructuredOutput([tag |-> "output", value |-> p])]
  /\ UNCHANGED <<storeVars, backfillVars, actionVars, attachVars, workVars, harnessVars, mentionVars, placeholder, now, ghost>>

\* startProgressReporter's interval callback (codexResponder.ts:457-471),
\* when it gets past its early returns.
ProgressReport(editOk) ==
  LET base == IF turn.progress.lastStatus = EmptyText THEN Text("Working...")
              ELSE turn.progress.lastStatus
      text == [s |-> base.s, arg |-> "elapsed",
               elapsed |-> (now - turn.progress.startedAt) \div 1000]
  IN
  /\ turn.pc \in {"agent", "summarizer"} /\ turn.reporterOn
  /\ now > turn.progress.startedAt
  /\ (now - turn.progress.startedAt) % ReporterPeriodMs = 0
  /\ ~(now - turn.progress.lastEventAt < ReporterIdleMs)
  /\ StatusAllowed(turn.limiter, text, now)
  /\ turn' = [turn EXCEPT !.limiter = LimiterAfter(@, text, now)]
  /\ placeholder' = IF editOk THEN Content(text, "thinking") ELSE placeholder
  /\ ghost' = StatusIssued(ghost, text, turn.attempt, now)
  /\ UNCHANGED <<storeVars, backfillVars, actionVars, attachVars, workVars, harnessVars, mentionVars, now>>

\* codexResponder.ts:147-157, the catch block of the agent call: the stop
\* acknowledgement for a cancellation-shaped failure, else the next attempt.
CatchAgentError(err, editOk) ==
  IF isAbortError(err)
  THEN /\ turn' = [turn EXCEPT !.pc = "done", !.reporterOn = FALSE]
       /\ placeholder' = IF editOk THEN StopContent ELSE placeholder
       /\ ghost' = [ghost EXCEPT !.allMalformed = FALSE,
                      !.cancelled = CancellationShaped(err),
                      !.outcome = IF editOk THEN "stopped" ELSE "stopRejected"]
  ELSE Continue(AgentErrorText(err), turn.lastOutput, editOk,
                [NoResponse(Failed(ghost, AgentErrorText(err))) EXCEPT
                   !.allMalformed = FALSE, !.cancelled = CancellationShaped(err)])

\* runStreamed, the stream's iterator or run throws err.
AgentThrow(err, editOk) ==
  /\ turn.pc = "agent"
  /\ CatchAgentError(err, editOk)
  /\ UNCHANGED <<storeVars, backfillVars, actionVars, attachVars, workVars, harnessVars, mentionVars, now>>

\* codexResponder.ts:100-102: a turn.failed event; its message is thrown.
StreamTurnFailed(msg, editOk) ==
  /\ turn.pc = "agent" /\ turn.streaming
  /\ turn.nEvents < MaxStreamEvents
  /\ CatchAgentError(Thrown(TRUE, "Error", msg), editOk)
  /\ UNCHANGED <<storeVars, backfillVars, actionVars, attachVars, workVars, harnessVars, mentionVars, now>>

\* codexResponder.ts:138-140 and :166-170: the structured output of the attempt.
Structured ==
  IF turn.streaming
  THEN IF FinalTextTruthy(turn.finalText)
       THEN extractStructuredOutput(turn.finalText) ELSE NullPayload
  ELSE turn.structured

\* codexResponder.ts:160-165: neither a structured output nor a final text.
DeliverMissing(editOk) ==
  /\ turn.pc = "deliver"
  /\ ~Truthy(Structured) /\ ~FinalTextTruthy(turn.finalText)
  /\ Continue(MissingFinalResponse, turn.lastOutput, editOk,
              NoResponse(Failed(ghost, MissingFinalResponse)))
  /\ UNCHANGED <<storeVars, backfillVars, actionVars, attachVars, workVars, harnessVars, mentionVars, now>>

\* codexResponder.ts:181-190: the output is recorded and fails the coercion.
DeliverMalformed(editOk) ==
  /\ turn.pc = "deliver"
  /\ ~(~Truthy(Structured) /\ ~FinalTextTruthy(turn.finalText))
  /\ ~coerceBlockKitMessage(Structured)
  /\ Continue(MalformedOutput, Structured, editOk,
              [Returned(Failed(ghost, MalformedOutput), Structured) EXCEPT
                 !.allMalformed = @ /\ ~WellFormed(Structured)])
  /\ UNCHANGED <<storeVars, backfillVars, actionVars, attachVars, workVars, harnessVars, mentionVars, now>>

\* codexResponder.ts:192-199 and :226-230: the chat API rejects the final
\* edit with err.
DeliverRejected(err, editOk) ==
  /\ turn.pc = "deliver"
  /\ ~(~Truthy(Structured) /\ ~FinalTextTruthy(turn.finalText))
  /\ coerceBlockKitMessage(Structured)
  /\ Continue(formatSlackError(err), Structured, editOk,
              [Returned(Failed(ghost, formatSlackError(err)), Structured) EXCEPT
                 !.allMalformed = @ /\ ~WellFormed(Structured),
                 !.editRejected = @ \/ turn.attempt < MaxAttempts])
  /\ UNCHANGED <<storeVars, backfillVars, actionVars, attachVars, workVars, harnessVars, mentionVars, now>>

\* codexResponder.ts:192-225: the chat API accepts the final edit; without
\* requested attachments the call returns, else they are resolved.
DeliverAccepted ==
  LET out == Structured
      none == RequestedAttachments(out) = <<>> IN
  /\ turn.pc = "deliver"
  /\ ~(~Truthy(out) /\ ~FinalTextTruthy(turn.finalText))
  /\ coerceBlockKitMessage(out)
  /\ turn' = [turn EXCEPT !.pc = IF none THEN "done" ELSE "attach",
                !.lastOutput = out, !.reporterOn = FALSE]
  /\ placeholder' = ReplyContent(out)
  /\ ghost' = [ghost EXCEPT
       !.allMalformed = @ /\ ~WellFormed(out),
       !.outcome = IF none THEN "reply" ELSE @]
  /\ UNCHANGED <<storeVars, backfillVars, actionVars, attachVars, workVars, harnessVars, mentionVars, now>>

\* codexResponder.ts:200-225: resolveAttachments, the uploads, the failure
\* report and the cleanup are over; the call returns.  up: some attachment
\* was resolved and its upload attempted.
AttachReturn(up) ==
  /\ turn.pc = "attach"
  /\ turn' = [turn EXCEPT !.pc = "done"]
  /\ ghost' = [ghost EXCEPT !.outcome = "reply", !.uploaded = up]
  /\ UNCHANGED <<storeVars, backfillVars, actionVars, attachVars, workVars, harnessVars, mentionVars, placeholder, now>>

\* resolveAttachments throws (fs.mkdir of the staging root at part_009:178,
\* fs.copyFile at :205); the catch block at codexResponder.ts:226-230 records
\* the error and the loop goes on.
AttachThrow(err, editOk) ==
  /\ turn.pc = "attach"
  /\ Continue(formatSlackError(err), turn.lastOutput, editOk,
              Returned(Failed(ghost, formatSlackError(err)), Structured))
  /\ UNCHANGED <<storeVars, backfillVars, actionVars, attachVars, workVars, harnessVars, mentionVars, now>>

NextTurn ==
  \/ \E ok \in BOOLEAN : PostThinking(ok)
  \/ \E d \in {MinStatusGapMs, ReporterIdleMs} : Tick(d)
  \/ InterruptTurn
  \/ \E ev \in StreamEvents, summary \in Summaries, editOk \in BOOLEAN :
       StreamEvent(ev, summary, editOk)
  \/ \E ev \in StreamEvents : SummarizerNeverSettles(ev)
  \/ StreamEnd
  \/ \E p \in Payloads : RunReturn(p)
  \/ \E editOk \in BOOLEAN : ProgressReport(editOk)
  \/ \E err \in AgentThrows, editOk \in BOOLEAN : AgentThrow(err, editOk)
  \/ \E msg \in {"E1", CancelledMessage}, editOk \in BOOLEAN : StreamTurnFailed(msg, editOk)
  \/ \E editOk \in BOOLEAN : DeliverMissing(editOk)
  \/ \E editOk \in BOOLEAN : DeliverMalformed(editOk)
  \/ \E err \in SlackThrows, editOk \in BOOLEAN : DeliverRejected(err, editOk)
  \/ DeliverAccepted
  \/ \E up \in BOOLEAN : AttachReturn(up)
  \/ \E err \in StagingThrows, editOk \in BOOLEAN : AttachThrow(err, editOk)

SpecTurn == InitTurn /\ [][NextTurn]_vars

\* ------------------------------------------------------------ SpecEndToEnd
\* One trigger event for an idle thread, from its delivery to the return of
\* handleAppMention: the steps of the handler around the steps of the call
\* of runCodexAndPost it makes.  No other event is delivered.

\* app.event('app_mention'): the event is delivered once.
Trigger ==
  /\ delivered = 0
  /\ Deliver(1)

\* mentionHandler.ts:63-92: the session, the thread history and the prompt
\* were obtained; runCodexAndPost is called.
StartTurn(i, st) ==
  /\ invs[i].pc = "run"
  /\ turn.pc = "idle"
  /\ turn' = [IdleTurn EXCEPT !.pc = "start", !.streaming = st]
  /\ UNCHANGED <<storeVars, backfillVars, actionVars, attachVars, workVars, harnessVars, mentionVars, placeholder, now, ghost>>

\* mentionHandler.ts:63-91 threw before runCodexAndPost was called.
PrepareThrowBeforeTurn(i) ==
  /\ turn.pc = "idle"
  /\ PrepareThrow(i)

\* mentionHandler.ts:92-110: runCodexAndPost returned; the finally block.
TurnReturned(i) ==
  /\ turn.pc = "done"
  /\ TurnReturn(i)

\* mentionHandler.ts:92-110: runCodexAndPost threw; the finally block.
TurnThrew(i) ==
  /\ turn.pc = "thrown"
  /\ TurnThrow(i)

NextEndToEnd ==
  \/ Trigger
  \/ \E i \in 1..Len(invs), st \in BOOLEAN : StartTurn(i, st)
  \/ \E i \in 1..Len(invs) : PrepareThrowBeforeTurn(i)
  \/ NextTurn
  \/ \E i \in 1..Len(invs) : TurnReturned(i)
  \/ \E i \in 1..Len(invs) : TurnThrew(i)
  \/ \E i \in 1..Len(invs) : PropagateThrow(i)
  \/ \E i \in 1..Len(invs) : StoreReturn(i)
  \/ \E i \in 1..Len(invs) : StoreThrow(i)

SpecEndToEnd == InitMentionSpec /\ [][NextEndToEnd]_vars

\* -------------------------------------------------------------- SpecAttach
\* The attachment stage of one attempt of runCodexAndPost
\* (codexResponder.ts:200-225) for two turns that run at once in one
\* process.  A job is in one of the positions
\*   mkdir    resolveAttachments awaits fs.mkdir(stagingRoot)
\*   next     the head of the loop over the requested attachments
\*   probe    ensureUniqueDestination awaits exists(candidate)
\*   copy     the destination is chosen, the copy has not been made
\*   upload   uploadAttachments, then postAttachmentFailures
\*   cleanup  cleanupAttachments awaits the unlinks
\*   returned the attempt returned its result
\*   threw    an error left the stage (caught at codexResponder.ts:226)
\* log holds, in order, what resolveAttachments pushed to resolved (ok) and
\* to failures (not ok).
Resolved(c, p, via) ==
  [req |-> c, ok |-> TRUE, path |-> p, reason |-> "", via |-> via]
Failure(c, reason) ==
  [req |-> c, ok |-> FALSE, path |-> NoPath, reason |-> reason, via |-> "none"]

IsOk(e) == e.ok
resolvedOf(j) == SelectSeq(j.log, IsOk)
IsFailure(e) == ~e.ok
failuresOf(j) == SelectSeq(j.log, IsFailure)

CurReq(j) == j.reqs[j.i]
\* part_009:183: attachment.filename ?? path.basename(normalizedCandidate).
filenameOf(sb, c) ==
  IF c.filename # NoFilename THEN c.filename
  ELSE Basename(normalizeAttachmentPath(c, sb.workDir))
\* ensureUniqueDestination's candidates: path.join(dir, name) normalizes.
Candidate(sb, c, n) == Normalize(stagingRoot(sb) \o <<Suffixed(filenameOf(sb, c), n)>>)

RequestLists == UNION {[1..n -> Requests] : n \in 1..MaxRequests}
SecondRequests == {<<>>, <<ReqTmp>>}

\* codexResponder.ts:201-203: the stage is entered only with requests.
StartJob(reqs) ==
  [IdleJob EXCEPT !.reqs = reqs,
                  !.pc = IF Len(reqs) > 0 THEN "mkdir" ELSE "returned"]

InitAttach ==
  /\ InitWorkState /\ InitHarness /\ InitMention /\ InitTurnIdle /\ InitActionIdle
  /\ sandbox \in Sandboxes
  /\ files = InitialFiles
  /\ \E ra \in RequestLists, rb \in SecondRequests :
       jobs = [r \in Runs |-> IF r = "A" THEN StartJob(ra) ELSE StartJob(rb)]

otherVars ==
  <<workVars, harnessVars, mentionVars, turnVars, actionVars, backfillVars, storeVars>>

\* part_009:178: await fs.mkdir(stagingRoot, {recursive: true}).
Mkdir(r, ok) ==
  /\ jobs[r].pc = "mkdir"
  /\ jobs' = [jobs EXCEPT ![r].pc = IF ok THEN "next" ELSE "threw",
                          ![r].err = IF ok THEN "" ELSE "mkdir"]
  /\ UNCHANGED <<otherVars, sandbox, files>>

AtRequest(r, branch) ==
  /\ jobs[r].pc = "next"
  /\ jobs[r].i <= Len(jobs[r].reqs)
  /\ BranchOf(sandbox, CurReq(jobs[r])) = branch

\* part_009:190-197: the path is inside a root.
Direct(r) ==
  /\ AtRequest(r, "direct")
  /\ LET c == CurReq(jobs[r])
         hostPath == HostPathOf(sandbox, c) IN
     jobs' = [jobs EXCEPT
       ![r].log = Append(@, IF exists(files, hostPath)
                            THEN Resolved(c, hostPath, "direct")
                            ELSE Failure(c, FileNotFound)),
       ![r].i = @ + 1]
  /\ UNCHANGED <<otherVars, sandbox, files>>

\* part_009:199-203: direct mode, temp path: the existence check.
TempStat(r) ==
  /\ AtRequest(r, "temp")
  /\ LET c == CurReq(jobs[r])
         cand == normalizeAttachmentPath(c, sandbox.workDir) IN
     IF exists(files, cand)
     THEN jobs' = [jobs EXCEPT ![r].pc = "probe", ![r].n = 0]
     ELSE jobs' = [jobs EXCEPT ![r].log = Append(@, Failure(c, TempFileNotFound)),
                               ![r].i = @ + 1]
  /\ UNCHANGED <<otherVars, sandbox, files>>

\* part_009:211-213: isolated mode: the path is looked up in the container.
BeginCopyOut(r) ==
  /\ AtRequest(r, "copyOut")
  /\ jobs' = [jobs EXCEPT ![r].pc = "probe", ![r].n = 0]
  /\ UNCHANGED <<otherVars, sandbox, files>>

\* part_009:226-229.
Reject(r) ==
  /\ AtRequest(r, "reject")
  /\ jobs' = [jobs EXCEPT ![r].log = Append(@, Failure(CurReq(jobs[r]), OutOfBounds)),
                          ![r].i = @ + 1]
  /\ UNCHANGED <<otherVars, sandbox, files>>

\* ensureUniqueDestination (part_009:281-292), one round of its loop: the
\* file system is read now; the caller goes on in a later step.
Probe(r) ==
  /\ jobs[r].pc = "probe"
  /\ LET cand == Candidate(sandbox, CurReq(jobs[r]), jobs[r].n) IN
     IF exists(files, cand)
     THEN jobs' = [jobs EXCEPT ![r].n = @ + 1]
     ELSE jobs' = [jobs EXCEPT ![r].pc = "copy", ![r].dest = cand]
  /\ UNCHANGED <<otherVars, sandbox, files>>

\* fs.copyFile(src, dest): fails when the source is not a regular file;
\* an existing destination is overwritten.
CopyFileOk(fsys, src) == Exists(fsys, src) /\ fsys[src] = "file"
Written(fsys, dest) ==
  [p \in DOMAIN fsys \cup {dest} |-> IF p = dest THEN "file" ELSE fsys[p]]

\* part_009:206-208 and 221-223: the job after a copy was made.
StagedJob_NoCleanup(j, c, dest, via) ==
  [j EXCEPT !.log = Append(@, Resolved(c, dest, via)),
            !.i = @ + 1,
            !.pc = "next"]
StagedJob(j, c, dest, via) ==
  [j EXCEPT !.cleanup = Append(@, dest),
            !.log = Append(@, Resolved(c, dest, via)),
            !.i = @ + 1,
            !.pc = "next"]

\* part_009:205-208: the staged copy.  The await is outside every try, so
\* an error of copyFile leaves resolveAttachments.
CopyFile(r) ==
  /\ jobs[r].pc = "copy"
  /\ sandbox.mode = "host"
  /\ LET c == CurReq(jobs[r])
         src == normalizeAttachmentPath(c, sandbox.workDir)
         dest == jobs[r].dest IN
     IF CopyFileOk(files, src)
     THEN /\ files' = Written(files, dest)
          /\ jobs' = [jobs EXCEPT ![r] = StagedJob(@, c, dest, "staged")]
     ELSE /\ files' = files
          /\ jobs' = [jobs EXCEPT ![r].pc = "threw", ![r].err = "copyFile"]
  /\ UNCHANGED <<otherVars, sandbox>>

\* dockerCopy(container, source, destination) succeeds when the container
\* has the source.
dockerCopyOk_Always(src) == TRUE
dockerCopyOk(src) == src \in ContainerFiles

\* part_009:214-223: the copy out of the container; its error is caught.
DockerCopy(r) ==
  /\ jobs[r].pc = "copy"
  /\ sandbox.mode = "docker"
  /\ LET c == CurReq(jobs[r])
         containerPath == normalizeContainerPath(c)
         dest == jobs[r].dest
         call == [container |-> sandbox.name, source |-> containerPath,
                  destination |-> dest, req |-> jobs[r].i] IN
     IF dockerCopyOk(containerPath)
     THEN /\ files' = Written(files, dest)
          /\ jobs' = [jobs EXCEPT
               ![r] = StagedJob([@ EXCEPT !.copies = Append(@, call)], c, dest, "copyOut")]
     ELSE /\ files' = files
          /\ jobs' = [jobs EXCEPT ![r].copies = Append(@, call),
                                  ![r].log = Append(@, Failure(c, CopyFailed)),
                                  ![r].i = @ + 1,
                                  ![r].pc = "next"]
  /\ UNCHANGED <<otherVars, sandbox>>

\* part_009:232 and codexResponder.ts:208-209.
EndResolve(r) ==
  /\ jobs[r].pc = "next"
  /\ jobs[r].i > Len(jobs[r].reqs)
  /\ jobs' = [jobs EXCEPT ![r].pc = "upload", ![r].u = 1]
  /\ UNCHANGED <<otherVars, sandbox, files>>

\* uploadAttachments (codexResponder.ts:317-355), one attachment: readFile,
\* then the upload (sent says whether the chat API took it).
Upload(r, sent) ==
  /\ jobs[r].pc = "upload"
  /\ jobs[r].u <= Len(resolvedOf(jobs[r]))
  /\ LET p == resolvedOf(jobs[r])[jobs[r].u].path IN
     IF CopyFileOk(files, p) /\ sent
     THEN jobs' = [jobs EXCEPT ![r].uploaded = Append(@, p), ![r].u = @ + 1]
     ELSE jobs' = [jobs EXCEPT ![r].uploadFailed = Append(@, p), ![r].u = @ + 1]
  /\ UNCHANGED <<otherVars, sandbox, files>>

\* codexResponder.ts:215-224: the follow-up message on failures, then the
\* cleanup when something was staged.
Report(r) ==
  /\ jobs[r].pc = "upload"
  /\ jobs[r].u > Len(resolvedOf(jobs[r]))
  /\ LET failed == Len(jobs[r].uploadFailed) + Len(failuresOf(jobs[r])) IN
     jobs' = [jobs EXCEPT
       ![r].followUps = IF failed > 0 THEN @ + 1 ELSE @,
       ![r].pc = IF Len(jobs[r].cleanup) > 0 THEN "cleanup" ELSE "returned"]
  /\ UNCHANGED <<otherVars, sandbox, files>>

\* fs.unlink(p): removes a regular file; fails on a missing path and on a
\* directory.
unlinkError(fsys, p) ==
  IF ~Exists(fsys, p) THEN "ENOENT"
  ELSE IF fsys[p] = "dir" THEN "EISDIR"
  ELSE ""
Removed(fsys, p) == [q \in DOMAIN fsys \ {p} |-> fsys[q]]

\* The catch of cleanupAttachments (part_009:240-242) takes every error.
unlinkCaught_OnlyMissing(e) == e = "ENOENT"
unlinkCaught(e) == TRUE

\* cleanupAttachments (part_009:235-245), one of the unlinks of its
\* Promise.all; they settle in any order.
Unlink(r, k) ==
  /\ jobs[r].pc = "cleanup"
  /\ k \in 1..Len(jobs[r].cleanup)
  /\ k \notin jobs[r].unlinked
  /\ LET p == jobs[r].cleanup[k]
         e == unlinkError(files, p) IN
     /\ files' = IF e = "" THEN Removed(files, p) ELSE files
     /\ IF e = "" \/ unlinkCaught(e)
        THEN jobs' = [jobs EXCEPT ![r].unlinked = @ \cup {k}]
        ELSE jobs' = [jobs EXCEPT ![r].pc = "threw", ![r].err = e]
  /\ UNCHANGED <<otherVars, sandbox>>

\* Every unlink has settled: cleanupAttachments returns, and so does the
\* attempt (codexResponder.ts:225).
CleanupSettled(r) ==
  /\ jobs[r].pc = "cleanup"
  /\ jobs[r].unlinked = 1..Len(jobs[r].cleanup)
  /\ jobs' = [jobs EXCEPT ![r].pc = "returned"]
  /\ UNCHANGED <<otherVars, sandbox, files>>

NextAttach ==
  \/ \E r \in Runs, ok \in BOOLEAN : Mkdir(r, ok)
  \/ \E r \in Runs : Direct(r)
  \/ \E r \in Runs : TempStat(r)
  \/ \E r \in Runs : BeginCopyOut(r)
  \/ \E r \in Runs : Reject(r)
  \/ \E r \in Runs : Probe(r)
  \/ \E r \in Runs : CopyFile(r)
  \/ \E r \in Runs : DockerCopy(r)
  \/ \E r \in Runs : EndResolve(r)
  \/ \E r \in Runs, sent \in BOOLEAN : Upload(r, sent)
  \/ \E r \in Runs : Report(r)
  \/ \E r \in Runs, k \in 1..(MaxRequests + 1) : Unlink(r, k)
  \/ \E r \in Runs : CleanupSettled(r)

SpecAttach == InitAttach /\ [][NextAttach]_vars

\* ------------------------------------------------------------- SpecCleanup
\* cleanupAttachments called by one turn on any list of at most MaxPaths
\* paths: regular files, a directory, and a path that is already gone.
StagedA == <<"tmp", "alfred-attachments", "x.txt">>
StagedB == <<"tmp", "alfred-attachments", "x-1.txt">>
StagedDir == <<"tmp", "alfred-attachments", "d">>
StagedGone == <<"tmp", "alfred-attachments", "gone.txt">>
CleanupPaths == {StagedA, StagedB, StagedDir, StagedGone}
CleanupFiles ==
  [p \in {StagedA, StagedB, StagedDir, <<"tmp", "x.txt">>} |->
     IF p = StagedDir THEN "dir" ELSE "file"]
PathLists == UNION {[1..n -> CleanupPaths] : n \in 0..MaxPaths}

InitCleanup ==
  /\ InitWorkState /\ InitHarness /\ InitMention /\ InitTurnIdle /\ InitActionIdle
  /\ sandbox \in {HostSandbox("dir")}
  /\ files = CleanupFiles
  /\ \E paths \in PathLists :
       jobs = [r \in Runs |->
                 IF r = "A" THEN [IdleJob EXCEPT !.pc = "cleanup", !.cleanup = paths]
                 ELSE IdleJob]

NextCleanup ==
  \/ \E k \in 1..MaxPaths : Unlink("A", k)
  \/ CleanupSettled("A")

SpecCleanup == InitCleanup /\ [][NextCleanup]_vars

\* -------------------------------------------------------------- SpecAction
\* One invocation of handleAction (actionHandler.ts:18-91) for an action on
\* a message of thread T1, whose work (a turn started by handleAppMention
\* with AbortController 1) may be active.  act.pc is the await the
\* invocation is suspended at.
ActionKinds == {"interrupt", "submit", "checkbox"}

\* actionHandler.ts:27-28: a button, or an action id that includes 'submit'.
hasSubmit(kind) == kind \in {"interrupt", "submit"}

InitAction ==
  /\ \E active \in BOOLEAN :
       states = [k \in Keys |->
                   IF k = "T1" /\ active
                   THEN [NewState EXCEPT !.inProgress = TRUE, !.abortController = 1,
                                         !.activeEventTs = 1]
                   ELSE NewState]
  /\ aborted = {}
  /\ InitHarness
  /\ invs = <<>> /\ delivered = 0
  /\ \E rec \in {NoRecord, "session"} :
       store = [k \in Keys |-> IF k = "T1" THEN rec ELSE NoRecord]
  /\ InitTurnIdle
  /\ InitAttachIdle
  /\ \E kind \in ActionKinds, ch \in BOOLEAN :
       act = [IdleAction EXCEPT !.pc = "ack", !.kind = kind, !.hasChannel = ch]
  /\ poll = IdlePoll
  /\ disk = IdleDisk

\* actionHandler.ts:25-51, after await ack(): actions that are no submit and
\* payloads without channel or thread are dropped; else the record is read
\* and the session is resumed or started.
ActionAfterAck ==
  /\ act.pc = "ack"
  /\ act' = IF ~hasSubmit(act.kind) \/ ~act.hasChannel
            THEN [act EXCEPT !.pc = "done",
                             !.activeAtPress = requestInterruptResult(act.key)]
            ELSE [act EXCEPT !.pc = "session", !.sessionCalled = TRUE,
                             !.hadRecord = (store[act.key] # NoRecord),
                             !.activeAtPress = requestInterruptResult(act.key)]
  /\ UNCHANGED <<workVars, harnessVars, mentionVars, turnVars, attachVars, backfillVars, storeVars>>

\* actionHandler.ts:49-57: resumeThread or startThread returned (ok) or
\* threw; conversations.replies is called.
ActionSession(ok) ==
  /\ act.pc = "session"
  /\ act' = [act EXCEPT !.pc = IF ok THEN "replies" ELSE "failed"]
  /\ UNCHANGED <<workVars, harnessVars, mentionVars, turnVars, attachVars, backfillVars, storeVars>>

\* actionHandler.ts:53-76: the thread history arrived; the prompt is built
\* and runCodexAndPost is called, which runs the agent.
ActionReplies(ok) ==
  /\ act.pc = "replies"
  /\ act' = [act EXCEPT !.pc = IF ok THEN "run" ELSE "failed", !.ran = ok]
  /\ UNCHANGED <<workVars, harnessVars, mentionVars, turnVars, attachVars, backfillVars, storeVars>>

\* actionHandler.ts:67-88: runCodexAndPost returned, the record is written;
\* or it threw.
ActionTurn(ok) ==
  /\ act.pc = "run"
  /\ act' = [act EXCEPT !.pc = IF ok THEN "store" ELSE "failed"]
  /\ store' = IF ok THEN [store EXCEPT ![act.key] = "session"] ELSE store
  /\ UNCHANGED <<workVars, harnessVars, invs, delivered, turnVars, attachVars, backfillVars, storeVars>>

\* actionHandler.ts:84-90: store.update or store.set settled.
ActionStore(ok) ==
  /\ act.pc = "store"
  /\ act' = [act EXCEPT !.pc = IF ok THEN "done" ELSE "failed"]
  /\ UNCHANGED <<workVars, harnessVars, mentionVars, turnVars, attachVars, backfillVars, storeVars>>

\* The turn that was active for the thread ends: handleAppMention's finally
\* block calls work.end (mentionHandler.ts:107).
ActiveWorkEnds ==
  /\ isBusy("T1")
  /\ states' = [states EXCEPT !["T1"] = EndState("T1")]
  /\ UNCHANGED <<aborted, harnessVars, mentionVars, turnVars, attachVars, actionVars, backfillVars, storeVars>>

NextAction ==
  \/ ActionAfterAck
  \/ \E ok \in BOOLEAN : ActionSession(ok)
  \/ \E ok \in BOOLEAN : ActionReplies(ok)
  \/ \E ok \in BOOLEAN : ActionTurn(ok)
  \/ \E ok \in BOOLEAN : ActionStore(ok)
  \/ ActiveWorkEnds

SpecAction == InitAction /\ [][NextAction]_vars

\* ------------------------------------------------------------ SpecBackfill
\* collectMissedMentions polled sequentially (part_008:51-112) over one
\* channel.  Times are in half seconds.  The channel holds a thread root
\* older than the poller and the mentions posted since: top-level messages
\* and replies in the root's thread.  A mention is known by its ts.

\* currentTs (part_008:114-117): Math.floor of the clock in seconds.
currentTs(c) == (c \div 2) * 2

Max2(a, b) == IF a >= b THEN a ELSE b
Min2(a, b) == IF a <= b THEN a ELSE b

RootTs == 1
StartClock == 2
TsRange == 0..MaxClock
Mention(ts, reply) == [ts |-> ts, reply |-> reply]

\* minAgeSeconds and historyLookbackSeconds of the options.
MinAges == {-2, 0, 2}
Lookbacks == {0, 2 * MaxClock}

\* What is known of a mention that no poll has passed yet.
NotPassed == [passed |-> FALSE, fetched |-> FALSE, handled |-> FALSE]

InitPoll(last, minAge, lookback) ==
  [pc |-> "run", clock |-> StartClock, lastPollTs |-> last,
   minAge |-> minAge, lookback |-> lookback,
   msgs |-> {}, seenRoot |-> 0, handledTop |-> {},
   polledAt |-> IF last = 0 THEN 0 ELSE StartClock,
   prevLastPollTs |-> last, startedAt |-> 0, polls |-> 0,
   returned |-> [t \in TsRange |-> 0],
   returnedAt |-> [t \in TsRange |-> 0],
   facts |-> [t \in TsRange |-> NotPassed]]

\* startMentionBackfillPoller (part_008:32) starts with lastPollTs = now; a
\* caller may pass an older state (the tests start from an earlier ts).
InitBackfill ==
  /\ InitWorkState /\ InitHarness /\ InitMention /\ InitTurnIdle /\ InitAttachIdle
  /\ act = IdleAction
  /\ disk = IdleDisk
  /\ \E last \in {0, currentTs(StartClock)}, minAge \in MinAges, lookback \in Lookbacks :
       poll = InitPoll(last, minAge, lookback)

\* A user posts a mention now; its ts is the time of posting, which is
\* later than the clock reading of any poll made before.
PostMention(reply) ==
  /\ poll.pc = "run"
  /\ Cardinality(poll.msgs) < MaxMentions
  /\ poll.polledAt # poll.clock
  /\ \A m \in poll.msgs : m.ts # poll.clock
  /\ poll' = [poll EXCEPT !.msgs = @ \cup {Mention(poll.clock, reply)}]
  /\ UNCHANGED <<workVars, harnessVars, mentionVars, turnVars, attachVars, actionVars, storeVars>>

AdvanceClock ==
  /\ poll.pc = "run"
  /\ poll.clock < MaxClock
  /\ poll' = [poll EXCEPT !.clock = @ + 1]
  /\ UNCHANGED <<workVars, harnessVars, mentionVars, turnVars, attachVars, actionVars, storeVars>>

\* The newest reply of the root's thread (message.latest_reply); 0: none.
latestReply(msgs) ==
  IF \E m \in msgs : m.reply
  THEN CHOOSE t \in {m.ts : m \in {x \in msgs : x.reply}} :
         \A m \in msgs : m.reply => m.ts <= t
  ELSE 0

\* mentionHandler.ts:112-124: a turn for the mention's thread has stored
\* its record; lastSeenUserTs is the ts of the last message of the thread.
HandleLive(m) ==
  /\ poll.pc = "run"
  /\ m \in poll.msgs
  /\ poll' = IF m.reply
             THEN [poll EXCEPT !.seenRoot = latestReply(poll.msgs)]
             ELSE [poll EXCEPT !.handledTop = @ \cup {m.ts}]
  /\ poll' # poll
  /\ UNCHANGED <<workVars, harnessVars, mentionVars, turnVars, attachVars, actionVars, storeVars>>

\* isAlreadyHandled (part_008:234-242): the record of the event's thread
\* has seen a message at or after the event.
isAlreadyHandled(pl, m) ==
  IF m.reply THEN pl.seenRoot # 0 /\ m.ts <= pl.seenRoot
  ELSE m.ts \in pl.handledTop

\* part_008:63-70: the oldest ts of the history request and the newest ts
\* a mention may have to be returned.
eligibleNewest(pl) == currentTs(pl.clock) - Max2(pl.minAge, 0)
historyOldest(pl) ==
  Min2(IF pl.lastPollTs # 0 THEN pl.lastPollTs ELSE currentTs(pl.clock),
       currentTs(pl.clock) - Max2(pl.lookback, 0))

\* part_008:111: the new lastPollTs.
nextPollTs_Now(pl) == currentTs(pl.clock)
nextPollTs(pl) == Max2(pl.lastPollTs, eligibleNewest(pl))

\* part_008:76-108: the mentions a poll returns.  historyOk and repliesOk:
\* conversations.history and conversations.replies answer; fetchHistory and
\* fetchReplies give no messages when the request fails.
InWindow(pl, m) ==
  IF m.reply THEN RootTs > historyOldest(pl) ELSE m.ts > historyOldest(pl)
Fetched(pl, m, historyOk, repliesOk) ==
  /\ historyOk
  /\ InWindow(pl, m)
  /\ m.reply => /\ latestReply(pl.msgs) > pl.lastPollTs
                /\ repliesOk
                /\ m.ts > pl.lastPollTs
collected(pl, historyOk, repliesOk) ==
  {m \in pl.msgs :
     /\ Fetched(pl, m, historyOk, repliesOk)
     /\ m.ts > pl.lastPollTs
     /\ m.ts <= eligibleNewest(pl)
     /\ ~isAlreadyHandled(pl, m)}

\* One call of collectMissedMentions, from its clock reading to its return.
Poll(historyOk, repliesOk) ==
  LET hits == collected(poll, historyOk, repliesOk)
      next == nextPollTs(poll)
      passing == {m \in poll.msgs : m.ts > poll.lastPollTs /\ m.ts <= next}
  IN
  /\ poll.pc = "run"
  /\ poll' = [poll EXCEPT
       !.lastPollTs = next,
       !.prevLastPollTs = poll.lastPollTs,
       !.startedAt = currentTs(poll.clock),
       !.polledAt = poll.clock,
       !.polls = Min2(@ + 1, 2),
       !.returned = [t \in TsRange |->
                       IF \E m \in hits : m.ts = t THEN Min2(@[t] + 1, 2) ELSE @[t]],
       !.returnedAt = [t \in TsRange |->
                         IF \E m \in hits : m.ts = t THEN currentTs(poll.clock) ELSE @[t]],
       !.facts = [t \in TsRange |->
                    IF \E m \in passing : m.ts = t
                    THEN LET m == CHOOSE x \in passing : x.ts = t IN
                         [passed |-> TRUE,
                          fetched |-> Fetched(poll, m, historyOk, repliesOk),
                          handled |-> isAlreadyHandled(poll, m)]
                    ELSE @[t]]]
  /\ UNCHANGED <<workVars, harnessVars, mentionVars, turnVars, attachVars, actionVars, storeVars>>

NextBackfill ==
  \/ \E reply \in BOOLEAN : PostMention(reply)
  \/ AdvanceClock
  \/ \E m \in poll.msgs : HandleLive(m)
  \/ \E historyOk \in BOOLEAN, repliesOk \in BOOLEAN : Poll(historyOk, repliesOk)

SpecBackfill == InitBackfill /\ [][NextBackfill]_vars

\* --------------------------------------------------------------- SpecStore
\* ThreadStore (threadStore.ts): the in-memory map, the store file and the
\* one temporary file every persist() writes.  The turns of different thread
\* keys call set/update concurrently; the calls of one key follow each
\* other.  File-system operations succeed whenever the file they work on
\* exists.

\* A value of the threads map: undefined, or a record.
NoThread == [present |-> FALSE, codexThreadId |-> "none", lastResponseTs |-> 0]
ThreadRecord(id, ts) == [present |-> TRUE, codexThreadId |-> id, lastResponseTs |-> ts]

\* A file: absent, or the threads of the payload written to it.
NoFile == [exists |-> FALSE, threads |-> [k \in Keys |-> NoThread]]
FileOf(payload) == [exists |-> TRUE, threads |-> payload]

IdleStoreCall == [pc |-> "idle", n |-> 0, payload |-> NoFile.threads]

InitDisk ==
  [pc |-> "run", threads |-> [k \in Keys |-> NoThread],
   tmp |-> NoFile, file |-> NoFile,
   call |-> [k \in Keys |-> IdleStoreCall]]

InitStore ==
  /\ InitWorkState /\ InitHarness /\ InitMention /\ InitTurnIdle /\ InitAttachIdle
  /\ act = IdleAction
  /\ poll = IdlePoll
  /\ disk = InitDisk

\* The turn of key k has no store call in flight and may make another.
CanCallStore(k) ==
  /\ disk.pc = "run"
  /\ disk.call[k].pc \in {"idle", "done", "failed"}
  /\ disk.call[k].n < MaxStoreCalls

\* threadStore.ts:53-56 and :69-70 (persist up to its first await), called at
\* mentionHandler.ts:122 for a thread without a record.
StoreSet(k) ==
  LET ts == disk.call[k].n + 1 IN
  /\ CanCallStore(k)
  /\ ~disk.threads[k].present
  /\ disk' = [disk EXCEPT !.threads[k] = ThreadRecord(k, ts),
                !.call[k].pc = "mkdir", !.call[k].n = ts]
  /\ UNCHANGED <<workVars, harnessVars, mentionVars, turnVars, attachVars, actionVars, backfillVars>>

\* threadStore.ts:58-67 and :69-70, called at mentionHandler.ts:120 for a
\* thread with a record: the patch is merged into the current record.
StoreUpdate(k) ==
  LET ts == disk.call[k].n + 1 IN
  /\ CanCallStore(k)
  /\ disk.threads[k].present
  /\ disk' = [disk EXCEPT !.threads[k] = [@ EXCEPT !.lastResponseTs = ts],
                !.call[k].pc = "mkdir", !.call[k].n = ts]
  /\ UNCHANGED <<workVars, harnessVars, mentionVars, turnVars, attachVars, actionVars, backfillVars>>

\* threadStore.ts:70-76: fs.mkdir resolved; the payload is built from the
\* map as it is now and fs.writeFile of the temporary file is started.
MkdirDone(k) ==
  /\ disk.call[k].pc = "mkdir"
  /\ disk' = [disk EXCEPT !.call[k].pc = "write", !.call[k].payload = disk.threads]
  /\ UNCHANGED <<workVars, harnessVars, mentionVars, turnVars, attachVars, actionVars, backfillVars>>

\* threadStore.ts:76-77: fs.writeFile resolved, the temporary file holds the
\* payload of this call; fs.rename is started.
WriteFileDone(k) ==
  /\ disk.call[k].pc = "write"
  /\ disk' = [disk EXCEPT !.tmp = FileOf(disk.call[k].payload), !.call[k].pc = "rename"]
  /\ UNCHANGED <<workVars, harnessVars, mentionVars, turnVars, attachVars, actionVars, backfillVars>>

\* threadStore.ts:77: fs.rename settles.  The temporary file replaces the
\* store file; when another call has renamed it away the rename rejects
\* with ENOENT and so do persist and the set/update call.
RenameDone(k) ==
  /\ disk.call[k].pc = "rename"
  /\ disk' = IF disk.tmp.exists
             THEN [disk EXCEPT !.file = disk.tmp, !.tmp = NoFile, !.call[k].pc = "done"]
             ELSE [disk EXCEPT !.call[k].pc = "failed"]
  /\ UNCHANGED <<workVars, harnessVars, mentionVars, turnVars, attachVars, actionVars, backfillVars>>

NextStore ==
  \/ \E k \in Keys : StoreSet(k)
  \/ \E k \in Keys : StoreUpdate(k)
  \/ \E k \in Keys : MkdirDone(k)
  \/ \E k \in Keys : WriteFileDone(k)
  \/ \E k \in Keys : RenameDone(k)

SpecStore == InitStore /\ [][NextStore]_vars

\* ------------------------------------------------------------------ claims

Active(i) == invs[i].began /\ ~invs[i].ended

\* C1: for every thread key at most one handleAppMention invocation is
\* between work.begin and work.end, and an invocation that found the key
\* busy neither begins, nor starts or resumes a session, nor calls
\* runCodexAndPost.
C1_OneTurnPerKey ==
  /\ \A k \in Keys :
       Cardinality({i \in 1..Len(invs) : invs[i].key = k /\ Active(i)}) <= 1
  /\ \A i \in 1..Len(invs) :
       invs[i].foundBusy =>
         ~invs[i].began /\ ~invs[i].sessionCalled /\ ~invs[i].turnCalled

\* An invocation is between begin and end while another one for the same key
\* has found it busy and returned.
C1_Witness ==
  \E i, j \in 1..Len(invs) :
    /\ invs[i].key = invs[j].key
    /\ Active(i)
    /\ invs[j].foundBusy /\ Finished(j)

\* C2 as stated: of the tryBegin calls made for a key since its last end,
\* exactly the first returns true.
C2_FirstTryBeginReturnsTrue ==
  \A k \in Keys :
    Len(tryLog[k]) >= 1 =>
      /\ tryLog[k][1] = TRUE
      /\ \A j \in 2..Len(tryLog[k]) : tryLog[k][j] = FALSE

\* C2 amended: of the tryBegin calls made for a key since its last end, none
\* but the first returns true, and the first returns true exactly if the key
\* was idle when it was made (it is not when begin has set the key running).
C2_OnlyFirstTryBeginOnIdle ==
  \A k \in Keys :
    /\ \A j \in 2..Len(tryLog[k]) : tryLog[k][j] = FALSE
    /\ Len(tryLog[k]) >= 1 => (tryLog[k][1] <=> idleAtFirstTry[k])

\* Two tryBegin calls on a key that was idle: the first won, the second lost.
C2_Witness ==
  \E k \in Keys :
    Len(tryLog[k]) >= 2 /\ tryLog[k][1] = TRUE /\ tryLog[k][2] = FALSE

\* C3: when the handler that ran a turn is over and its work.end returned a
\* backlog of N >= 1 queued triggers, the handler was re-invoked for exactly
\* one of them, the most recently queued.
C3_MostRecentQueuedReplayed ==
  \A i \in 1..Len(invs) :
    (invs[i].turnCalled /\ Finished(i) /\ Len(invs[i].queuedMentions) >= 1) =>
      invs[i].replayed = <<Last(invs[i].queuedMentions)>>

\* C4: an invocation that called work.begin has called work.end when it is
\* over, whether it returned or threw, and that end left the key idle.
C4_EndBeforeFinish ==
  \A i \in 1..Len(invs) :
    /\ (invs[i].began /\ Finished(i)) => (invs[i].ended /\ invs[i].idleAfterEnd)
    /\ (invs[i].began /\ ~invs[i].ended) =>
         (invs[i].pc = "run" /\ states[invs[i].key].abortController = i)

\* An invocation that began is over after its try block threw.
C4_Witness ==
  \E i \in 1..Len(invs) :
    invs[i].began /\ invs[i].threw /\ invs[i].pc = "failed" /\ invs[i].ended

\* C5: when a handler whose turn threw is over and triggers were queued for
\* the key, the most recently queued trigger was replayed.
C5_ReplayAfterTurnThrow ==
  \A i \in 1..Len(invs) :
    (invs[i].turnThrew /\ Finished(i) /\ Len(invs[i].queuedMentions) >= 1) =>
      Last(invs[i].queuedMentions) \in Range(invs[i].replayed)


\* A turn was started once its placeholder is posted; every attempt failed
\* once the failure of attempt 5 is recorded.
TurnStarted == ghost.started
AllAttemptsFailed == ghost.failAttempt = 5
ApologyText == "Sorry - I couldn't post a response."

\* The apology edit was issued: accepted (the call returned) or rejected
\* (the call threw after the placeholder was posted).
ApologyIssued ==
  \/ ghost.outcome = "apology"
  \/ ghost.outcome = "threw" /\ TurnStarted

ShowsApology(err) ==
  /\ placeholder.blocks = "section"
  /\ placeholder.text.s = ApologyText
  /\ placeholder.text.arg = err

\* C6: the agent is never invoked more than 5 times in a turn; a turn in
\* which every agent call returned malformed output is over only after
\* exactly 5 agent calls, with the apology edit issued, and the placeholder
\* shows the apology when the chat API accepted that edit.
C6_FiveCallsThenApology ==
  /\ turn.agentCalls <= 5
  /\ (TurnOver /\ TurnStarted /\ ghost.allMalformed) =>
       /\ turn.agentCalls = 5
       /\ ApologyIssued
       /\ ghost.outcome = "apology" => ShowsApology(ghost.failText)

C6_Witness ==
  /\ TurnOver /\ TurnStarted /\ ghost.allMalformed
  /\ turn.agentCalls = 5
  /\ ghost.outcome = "apology"
  /\ ghost.failText = MalformedOutput

\* C7 as stated: when all 5 attempts have failed, the call has returned
\* normally (it did not throw) and the placeholder shows the apology with
\* the last error text.
C7_ApologyAndNormalReturn ==
  AllAttemptsFailed =>
    /\ turn.pc = "done"
    /\ ShowsApology(ghost.failText)

\* C7 amended: when all 5 attempts have failed the apology edit with the
\* last error text has been issued and the call is over; it returned
\* normally, the placeholder showing the apology, exactly when the chat API
\* accepted that edit, and it threw when the chat API rejected it.
C7_ApologyIssuedThenReturnOrThrow ==
  AllAttemptsFailed =>
    /\ TurnOver
    /\ ApologyIssued
    /\ turn.lastError = ghost.failText
    /\ turn.pc = "done" <=> ghost.outcome = "apology"
    /\ turn.pc = "done" => ShowsApology(ghost.failText)
    /\ turn.pc = "thrown" => ghost.outcome = "threw"

C7_Witness ==
  /\ AllAttemptsFailed
  /\ turn.pc = "done"
  /\ ghost.failText = "invalid_blocks"
  /\ ShowsApology("invalid_blocks")

ShowsReply ==
  /\ WellFormed(turn.lastOutput)
  /\ placeholder.blocks = "output"
  /\ placeholder.text.s = turn.lastOutput.text

ShowsStopped ==
  /\ placeholder.blocks = "section"
  /\ placeholder.text = Text("Okay - I stopped.")

\* C8 as stated: a started turn that is over shows the validated reply, the
\* apology or the stop acknowledgement.
C8_EndsShowingOutcome ==
  (TurnOver /\ TurnStarted) =>
    \/ ShowsReply
    \/ ShowsApology(turn.lastError)
    \/ ShowsStopped

\* C8 amended: a started turn is over only after a concluding edit (reply,
\* apology or stop acknowledgement) was issued, and when the chat API
\* accepted that edit the placeholder shows exactly that message.
C8_EndsShowingAcceptedOutcome ==
  (TurnOver /\ TurnStarted) =>
    /\ ghost.outcome \in {"reply", "apology", "stopped", "stopRejected", "threw"}
    /\ ghost.outcome = "reply" => ShowsReply
    /\ ghost.outcome = "apology" => ShowsApology(turn.lastError)
    /\ ghost.outcome = "stopped" => ShowsStopped

C8_Witness ==
  /\ TurnOver /\ TurnStarted
  /\ ghost.outcome = "stopped"
  /\ ShowsStopped
  /\ turn.attempt = 2

\* C9: during every attempt k in 2..5 the prompt passed to the agent is a
\* retry prompt whose error line is the error text recorded when attempt
\* k-1 failed.
C9_PromptHasPreviousError ==
  turn.attempt \in 2..5 =>
    /\ ghost.failAttempt = turn.attempt - 1
    /\ ghost.failText # NullError
    /\ turn.attemptPrompt.retry
    /\ turn.attemptPrompt.error = ghost.failText

C9_Witness ==
  /\ turn.pc = "agent"
  /\ turn.attempt = 3
  /\ ghost.failText = "invalid_blocks"
  /\ turn.attemptPrompt.error = "invalid_blocks"

\* C10 as stated: a rejected final edit on attempt k < 5 starts attempt k+1
\* with a new agent call, and once a later attempt's valid reply has been
\* accepted by the chat API the turn goes on to succeed in that attempt,
\* the placeholder keeping that reply.
C10_SucceedsAtFirstAcceptedReply ==
  [][/\ (turn.pc = "deliver" /\ turn.attempt < 5 /\ turn'.attempt = turn.attempt + 1) =>
          (turn'.pc = "agent" /\ turn'.agentCalls = turn.agentCalls + 1)
     /\ (ghost.editRejected /\ turn.pc = "attach") =>
          /\ turn'.pc \in {"attach", "done"}
          /\ turn'.attempt = turn.attempt
          /\ placeholder' = placeholder]_vars


\* C11 as stated: a started turn whose cancellation handle was signaled by
\* requestInterrupt while it ran is over only after issuing the stop edit
\* (once, in the step that ends the turn), the placeholder showing the stop
\* message when the chat API accepted it, and without any attachment upload.
C11_InterruptShowsStopNoUpload ==
  (TurnOver /\ TurnStarted /\ SignalAborted) =>
    /\ ghost.outcome \in {"stopped", "stopRejected"}
    /\ ghost.outcome = "stopped" => ShowsStopped
    /\ ~ghost.uploaded

\* C12: once the agent call of an attempt has failed with a
\* cancellation-shaped failure the call is over in that attempt: it has
\* returned after issuing the stop edit, no further attempt or agent call was
\* made, and the placeholder shows the stop acknowledgement when the chat
\* API accepted the edit.
C12_CancellationEndsTurn ==
  ghost.cancelled =>
    /\ turn.pc = "done"
    /\ ghost.outcome \in {"stopped", "stopRejected"}
    /\ ghost.outcome = "stopped" => ShowsStopped
    /\ turn.attempt <= 5
    /\ turn.agentCalls = turn.attempt
    /\ ~ghost.uploaded

C12_Witness ==
  /\ ghost.cancelled
  /\ ~SignalAborted
  /\ turn.attempt = 2
  /\ ghost.outcome = "stopped"

\* ---- attachments
Ended(j) == j.pc \in {"returned", "threw"}
InRoots(sb, p) == isSafePath(p, sb.workDir) \/ isSafePath(p, sb.dataDir)
Entries(j) == {k \in 1..Len(j.log) : TRUE}
SeqRange(q) == {q[k] : k \in 1..Len(q)}

\* C13: a failure for a requested attachment never fails the turn: the
\* attempt returns, the failures are reported in one follow-up message and
\* every resolved attachment went through the upload.  (An error of the
\* staging directory itself is not a failure of a requested attachment and
\* is left out.)
C13_AttachmentFailureNeverFailsTurn ==
  \A r \in Runs :
    LET j == jobs[r] IN
    (Ended(j) /\ Len(j.reqs) > 0 /\ j.err # "mkdir") =>
      /\ j.pc = "returned"
      /\ Len(j.log) = Len(j.reqs)
      /\ (Len(failuresOf(j)) + Len(j.uploadFailed) > 0) => j.followUps = 1
      /\ Len(j.uploaded) + Len(j.uploadFailed) = Len(resolvedOf(j))

\* C14: a request whose normalized path is inside the workspace root or the
\* data root and whose file exists is resolved to that path, without a copy
\* and without a cleanup entry.
C14_InsideRootsAcceptedDirectly ==
  \A r \in Runs :
    LET j == jobs[r] IN
    \A k \in Entries(j) :
      LET e == j.log[k]
          cand == normalizeAttachmentPath(e.req, sandbox.workDir) IN
      (InRoots(sandbox, cand) /\ Exists(InitialFiles, cand)) =>
        /\ e.ok
        /\ e.path = cand
        /\ e.via = "direct"
        /\ cand \notin SeqRange(j.cleanup)

\* True of a request of direct mode for an existing regular file in a temp
\* directory and outside both roots.
TempRequest(c) ==
  LET src == normalizeAttachmentPath(c, sandbox.workDir) IN
  /\ sandbox.mode = "host"
  /\ Len(src) >= 2 /\ src[1] = "tmp"
  /\ Len(sandbox.workDir) > 0 /\ src[1] # sandbox.workDir[1]
  /\ Len(sandbox.dataDir) > 0 /\ src[1] # sandbox.dataDir[1]
  /\ src \in DOMAIN InitialFiles /\ InitialFiles[src] = "file"

\* The number of requests handled so far that were resolved to a copy.
IsCopy(e) == e.ok /\ e.via \in {"staged", "copyOut"}
CopiesMade(j) == Len(SelectSeq(j.log, IsCopy))

CallsFor(j, k) == {n \in 1..Len(j.copies) : j.copies[n].req = k}

\* C16: in isolated mode a request for /workspace/x.txt makes exactly one
\* copy-out call, with the mapped destination.
C16_WorkspaceFileCopiedOutOnce ==
  \A r \in Runs :
    LET j == jobs[r] IN
    \A k \in Entries(j) :
      (sandbox.mode = "docker" /\ j.log[k].req = ReqWorkspace) =>
        /\ Cardinality(CallsFor(j, k)) = 1
        /\ \A n \in CallsFor(j, k) :
             /\ j.copies[n].source = <<"workspace", "x.txt">>
             /\ isSafePath(j.copies[n].destination, stagingRoot(sandbox))

\* C17: a request for /etc/passwd is rejected with the out-of-bounds reason
\* in every mode, and is never copied or uploaded.
C17_EtcPasswdRejected ==
  \A r \in Runs :
    LET j == jobs[r] IN
    /\ \A k \in Entries(j) :
         j.log[k].req = ReqPasswd =>
           /\ ~j.log[k].ok
           /\ j.log[k].reason = OutOfBounds
    /\ \A n \in 1..Len(j.copies) : j.copies[n].source # <<"etc", "passwd">>

\* True of a request of isolated mode whose path does not map into a root.
CopyOutRequest(c) ==
  LET hostPath == HostPathOf(sandbox, c) IN
  /\ sandbox.mode = "docker"
  /\ hostPath = NoPath \/ ~InRoots(sandbox, hostPath)

\* C18 as stated: in isolated mode a request whose path does not map into
\* a root is fetched by exactly one copy-out call (container name,
\* normalized container path, destination), is resolved to that destination
\* under the temp staging directory, and the destination is on the cleanup
\* list.
C18_CopyOutResolvesAndSchedulesCleanup ==
  \A r \in Runs :
    LET j == jobs[r] IN
    \A k \in Entries(j) :
      LET e == j.log[k] IN
      CopyOutRequest(e.req) =>
        /\ Cardinality(CallsFor(j, k)) = 1
        /\ \A n \in CallsFor(j, k) :
             /\ j.copies[n].container = sandbox.name
             /\ j.copies[n].source = normalizeContainerPath(e.req)
             /\ e.ok /\ e.path = j.copies[n].destination
             /\ SubSeq(e.path, 1, 2) = <<"tmp", "alfred-attachments">>
             /\ e.path \in SeqRange(j.cleanup)

\* C18 (amended): exactly one copy-out call is made (container name,
\* normalized container path, destination under the temp staging
\* directory); when the copy-out succeeds the request is resolved to the
\* destination and the destination is put on the cleanup list; when it
\* fails the request is recorded as a failure with the copy error and
\* nothing is put on the cleanup list.
C18_CopyOutOnceResolvedOnSuccess ==
  \A r \in Runs :
    LET j == jobs[r] IN
    /\ \A k \in Entries(j) :
         LET e == j.log[k] IN
         CopyOutRequest(e.req) =>
           /\ Cardinality(CallsFor(j, k)) = 1
           /\ \A n \in CallsFor(j, k) :
                /\ j.copies[n].container = sandbox.name
                /\ j.copies[n].source = normalizeContainerPath(e.req)
                /\ SubSeq(j.copies[n].destination, 1, 2) = <<"tmp", "alfred-attachments">>
                /\ e.ok <=> j.copies[n].source \in ContainerFiles
                /\ e.ok => /\ e.via = "copyOut"
                           /\ e.path = j.copies[n].destination
                           /\ e.path \in SeqRange(j.cleanup)
                /\ ~e.ok => e.reason = CopyFailed
    /\ sandbox.mode = "docker" => Len(j.cleanup) = CopiesMade(j)
C18_Witness ==
  /\ sandbox.mode = "docker"
  /\ jobs["A"].pc = "returned"
  /\ jobs["A"].reqs = <<ReqTmp, ReqMissing>>
  /\ jobs["A"].log[1].ok /\ ~jobs["A"].log[2].ok
  /\ Len(jobs["A"].copies) = 2
  /\ Len(jobs["A"].cleanup) = 1

\* The staged copies a job has made and not yet passed to the upload.
Busy(j) == j.pc \in {"next", "probe", "copy", "upload"}
Pending(j) ==
  IF ~Busy(j) THEN {}
  ELSE {resolvedOf(j)[k].path :
          k \in {m \in 1..Len(resolvedOf(j)) :
                   /\ resolvedOf(j)[m].via # "direct"
                   /\ j.pc = "upload" => m >= j.u}}

\* C19: two turns that stage at once never hold the same destination, and
\* a staged copy that waits for its upload is not deleted by the other turn.
C19_ConcurrentStagingDistinct ==
  /\ Pending(jobs["A"]) \cap Pending(jobs["B"]) = {}
  /\ \A r \in Runs : \A p \in Pending(jobs[r]) : Exists(files, p)

C21_EndToEndValidReply ==
  (/\ Len(invs) = 1 /\ invs[1].pc = "done"
   /\ turn.attempt = 1 /\ turn.lastOutput = PDone /\ ghost.outcome = "reply") =>
    /\ ghost.started /\ ghost.thinkingPosts = 1
    /\ placeholder.text.s = "Done" /\ placeholder.blocks = "output"
    /\ turn.agentCalls = 1
    /\ ~ghost.uploaded /\ ~invs[1].foundBusy /\ invs[1].busyMessages = <<>>
    /\ ~states["T1"].inProgress
    /\ states["T1"].queued = <<>> /\ states["T1"].busyMessages = <<>>
    /\ states["T1"].abortController = NoController
    /\ invs[1].queuedMentions = <<>> /\ invs[1].replayed = <<>>
C21_Witness ==
  /\ Len(invs) = 1 /\ invs[1].pc = "done"
  /\ turn.attempt = 1 /\ turn.lastOutput = PDone /\ ghost.outcome = "reply"
  /\ turn.streaming
  /\ store["T1"] = "session"

\* C22: a trigger event delivered more than once while its thread is busy
\* is added to the backlog at most once, whatever the interleaving: no event
\* is queued twice, and a delivery of the active trigger is never queued.
C22_DuplicateDeliveryQueuedOnce ==
  \A k \in Keys :
    /\ \A a, b \in 1..Len(states[k].queued) :
         a # b => states[k].queued[a] # states[k].queued[b]
    /\ \A a \in 1..Len(states[k].queued) :
         states[k].queued[a] # states[k].activeEventTs

\* startThread was called by the i-th invocation (no stored session id).
StartedThread(i) == invs[i].sessionCalled /\ ~invs[i].hadRecord

\* C23: each thread key maps to one agent session: a turn for a key that
\* begins after a turn for that key has completed resumes the stored
\* session; startThread is not invoked again, whatever the interleaving of
\* the triggers.
C23_OneSessionPerKey ==
  \A i \in 1..Len(invs) :
    (invs[i].began /\ invs[i].afterCompletedTurn) => ~StartedThread(i)

C26_CancelButtonInterruptsNoRun ==
  (act.kind = "interrupt" /\ act.hasChannel /\ act.activeAtPress
     /\ act.pc \notin {"idle", "ack"}) =>
    /\ SignalAborted
    /\ ~act.sessionCalled
    /\ ~act.ran

\* C27: resolveAttachments stages into the process-wide temp location
\* whenever the data root is a version-controlled working tree or the
\* sandbox is isolated, and into the data root's attachments directory
\* otherwise; no staged copy is ever written under a version-controlled
\* data root.
LiesUnder(p, root) ==
  /\ Len(p) > Len(root)
  /\ SubSeq(p, 1, Len(root)) = root
VersionControlled(sb) == sb.dotGit # "none"
StagedPaths(j) ==
  {j.log[k].path : k \in {n \in Entries(j) : j.log[n].via \in {"staged", "copyOut"}}}
    \cup (IF j.pc = "copy" THEN {j.dest} ELSE {})
C27_StagingRootKeepsOutOfTrackedTree ==
  \A r \in Runs :
    \A p \in StagedPaths(jobs[r]) :
      /\ LiesUnder(p, IF VersionControlled(sandbox) \/ sandbox.mode = "docker"
                      THEN <<"tmp", "alfred-attachments">>
                      ELSE sandbox.dataDir \o <<"attachments">>)
      /\ VersionControlled(sandbox) => ~LiesUnder(p, sandbox.dataDir)

\* C28: runCodexAndPost observes the cancellation handle at every
\* suspension point: once the handle is signaled, no step of the call starts
\* a further agent call, delivers the final reply or starts the staging or
\* the upload of attachments, even if the agent call in flight returns
\* normally.
StartsAgentCall == turn'.agentCalls > turn.agentCalls
DeliversFinalReply ==
  /\ turn.pc = "deliver"
  /\ turn'.pc = "attach" \/ (turn'.pc = "done" /\ ghost'.outcome = "reply")
StartsStagingOrUpload ==
  \/ turn.pc # "attach" /\ turn'.pc = "attach"
  \/ ~ghost.uploaded /\ ghost'.uploaded
C28_SignaledTurnDoesNothingMore ==
  [][SignalAborted =>
       /\ ~StartsAgentCall
       /\ ~DeliversFinalReply
       /\ ~StartsStagingOrUpload]_vars

\* C29: the status-enrichment helper never holds up a turn: whether
\* constructing or calling it fails or never completes, the
\* event-consumption loop keeps consuming agent events and the turn still
\* reaches its final outcome.  Stated for single states: the call is never
\* at a position where its only continuation is the helper settling.
C29_SummarizerNeverHoldsUpTurn == turn.pc # "summarizer"

\* C30: a payload is delivered as the final reply, and its attachments
\* processed, only if its text is a string, its blocks is an array and every
\* attachment entry has a string path; every other payload leads to the
\* next attempt and is never shown in the placeholder.
ValidReply(p) ==
  /\ p.kind = "object"
  /\ p.text # NotAString
  /\ p.blocks = "array"
  /\ \A j \in 1..Len(p.attachments.items) : p.attachments.items[j].pathIsString
ShowsNewReply == placeholder' # placeholder /\ placeholder'.blocks = "output"
EntersAttachments == turn.pc # "attach" /\ turn'.pc = "attach"
C30_OnlyValidPayloadDelivered ==
  [][/\ (ShowsNewReply \/ EntersAttachments) =>
          /\ turn.pc = "deliver"
          /\ turn'.lastOutput = Structured
          /\ ValidReply(Structured)
          /\ placeholder'.text = Text(Structured.text)
     /\ (turn.pc = "deliver" /\ turn' # turn /\ ~ValidReply(Structured)) =>
          /\ turn'.attempt = turn.attempt + 1
          /\ turn'.pc \in {"agent", "done", "thrown"}
          /\ ghost'.outcome # "reply"
          /\ placeholder' = placeholder \/ placeholder'.blocks # "output"]_vars
C30_Witness ==
  /\ turn.attempt = 2
  /\ turn.attemptPrompt.output = PNoPath
  /\ turn.lastOutput = PWithFile
  /\ ghost.outcome = "reply" /\ ghost.uploaded
  /\ placeholder = Content(Text("Report"), "output")

\* C31 as stated: over a whole turn, any two consecutive status edits of
\* the placeholder are issued at least 2500 ms apart, and the same status
\* text is not issued again within 15000 ms of its last issue, also across
\* the boundary between two attempts.
IssuesStatus ==
  <<ghost'.statusAttempt, ghost'.statusAt, ghost'.statusText>>
    # <<ghost.statusAttempt, ghost.statusAt, ghost.statusText>>
SpacedFromLastStatus ==
  /\ ghost'.statusAt - ghost.statusAt >= 2500
  /\ ghost'.statusText = ghost.statusText => ghost'.statusAt - ghost.statusAt >= 15000
InRetryAttempt == turn.attempt \in 2..5 /\ turn.pc \in {"agent", "summarizer", "deliver", "attach", "done"}
EchoOf(p) == IF p.kind = "null" THEN NullPayload ELSE p
C32_PromptEchoesPrecedingAttempt ==
  InRetryAttempt => turn.attemptPrompt.output = EchoOf(ghost.prevPayload)

\* C32 amended: the prompt of attempt k echoes the structured output of the
\* latest of the attempts 1..k-1 that got a final response from the agent
\* (null when that output is null, or when none of them got one): an
\* attempt whose agent call threw or returned no final response keeps the
\* output of the attempt before it.
C32_PromptEchoesLastReturnedPayload ==
  InRetryAttempt =>
    /\ turn.attemptPrompt.retry
    /\ turn.attemptPrompt.output = EchoOf(ghost.lastPayload)
C32_Witness ==
  /\ turn.attempt = 3 /\ turn.pc = "agent"
  /\ ghost.prevPayload = NullPayload
  /\ ghost.lastPayload = PNoBlocks
  /\ turn.attemptPrompt.output = PNoBlocks
  /\ turn.attemptPrompt.error = MissingFinalResponse

\* C33: every staged copy created for a turn is deleted before
\* runCodexAndPost finishes, whether the uploads succeed or fail and also
\* when staging a later attachment of the same reply fails: after the turn
\* none of its staged copies remains in the staging directory.
C33_NoStagedCopyRemainsAfterTurn ==
  \A r \in Runs :
    Ended(jobs[r]) =>
      \A p \in StagedPaths(jobs[r]) : ~Exists(files, p)

\* C34 as stated: over successive polls a mention newer than lastPollTs is
\* withheld while it is younger than minAgeSeconds and is returned by
\* exactly one later poll once it is old enough; each poll sets lastPollTs
\* to max(previous lastPollTs, now - minAgeSeconds), so it never decreases.
OldEnoughWhenReturned(m) ==
  poll.returned[m.ts] >= 1 =>
    m.ts <= poll.returnedAt[m.ts] - (IF poll.minAge > 0 THEN poll.minAge ELSE 0)
CursorIsMax ==
  poll.polls > 0 =>
    /\ poll.lastPollTs >= poll.prevLastPollTs
    /\ poll.lastPollTs >= poll.startedAt - (IF poll.minAge > 0 THEN poll.minAge ELSE 0)
    /\ \/ poll.lastPollTs = poll.prevLastPollTs
       \/ poll.lastPollTs = poll.startedAt - (IF poll.minAge > 0 THEN poll.minAge ELSE 0)
C35_IdleKeyHasEmptyBacklog ==
  \A k \in Keys :
    ~states[k].inProgress =>
      /\ Len(states[k].queued) = 0
      /\ Len(states[k].busyMessages) = 0

\* C36: once the final edit of the placeholder with the reply has been
\* accepted (the attachments are being handled, or the call has returned
\* with the reply), no step of the turn makes another agent call, starts
\* another attempt or changes the placeholder.
FinalEditAccepted ==
  \/ turn.pc = "attach"
  \/ turn.pc = "done" /\ ghost.outcome = "reply"

C36_NothingAfterAcceptedFinalEdit ==
  [][FinalEditAccepted =>
       /\ turn'.agentCalls = turn.agentCalls
       /\ turn'.attempt = turn.attempt
       /\ placeholder' = placeholder]_vars

\* C37: no trigger event begins more than one turn for its thread key,
\* however its deliveries interleave with the turns of the thread: among
\* the handler invocations for one event at most one called work.begin.
C37_EventStartsAtMostOneTurn ==
  \A i, j \in 1..Len(invs) :
    (/\ invs[i].began /\ invs[j].began
     /\ invs[i].event = invs[j].event
     /\ invs[i].key = invs[j].key) => i = j

\* C38: set and update calls made concurrently by the turns of different
\* thread keys never fail, and once none is in flight the store file holds
\* the record of every thread as it was last set.
StoreQuiet == \A k \in Keys : disk.call[k].pc \in {"idle", "done", "failed"}
StoreCalled == \E k \in Keys : disk.call[k].n > 0

C38_ConcurrentStoreCallsAllPersist ==
  /\ \A k \in Keys : disk.call[k].pc # "failed"
  /\ (StoreQuiet /\ StoreCalled) =>
       /\ disk.file.exists
       /\ disk.file.threads = disk.threads

\* C39: every path resolveAttachments returns in resolved lies inside the
\* workspace root, the data root or the staging root, and a request whose
\* path, once "." and ".." are resolved, is outside the roots of the agent
\* (in isolated mode: the container's workspace) is resolved only to a
\* staged copy inside the staging root.
Inside(p, root) == p = root \/ LiesUnder(p, root)
RequestedPath(sb, c) ==
  Normalize(IF c.abs THEN c.segs
            ELSE (IF sb.mode = "docker" THEN ContainerWorkRoot ELSE sb.workDir) \o c.segs)
RequestInsideRoots(sb, c) ==
  IF sb.mode = "docker" THEN Inside(RequestedPath(sb, c), ContainerWorkRoot)
  ELSE Inside(RequestedPath(sb, c), sb.workDir) \/ Inside(RequestedPath(sb, c), sb.dataDir)

C39_ResolvedPathsStayInsideRoots ==
  \A r \in Runs :
    \A k \in Entries(jobs[r]) :
      LET e == jobs[r].log[k] IN
      e.ok =>
        /\ \/ Inside(e.path, sandbox.workDir)
           \/ Inside(e.path, sandbox.dataDir)
           \/ LiesUnder(e.path, stagingRoot(sandbox))
        /\ ~RequestInsideRoots(sandbox, e.req) =>
             /\ e.via \in {"staged", "copyOut"}
             /\ LiesUnder(e.path, stagingRoot(sandbox))
             /\ e.path \in SeqRange(jobs[r].cleanup)

\* Isolated mode: /workspace2/x.txt and a file named ".." were both copied
\* out to the staging root.
C39_Witness ==
  /\ sandbox.mode = "docker"
  /\ Len(jobs["A"].log) = 2
  /\ jobs["A"].log[1].req = ReqSibling /\ jobs["A"].log[1].via = "copyOut"
  /\ jobs["A"].log[2].req = ReqNamedParent
  /\ jobs["A"].log[2].path = stagingRoot(sandbox) \o <<"..-1">>

\* Direct mode: the requests that leave the roots through ".." were
\* rejected.
C39_WitnessEscape ==
  /\ sandbox.mode = "host"
  /\ Len(jobs["A"].log) = 2
  /\ jobs["A"].log[1].req = ReqEscape /\ jobs["A"].log[1].reason = OutOfBounds
  /\ jobs["A"].log[2].req = ReqTmpEscape /\ jobs["A"].log[2].reason = OutOfBounds

\* C40 as stated: the stop acknowledgement is shown only for a turn whose
\* cancellation handle was signaled by requestInterrupt.
C40_StoppedOnlyWhenInterrupted ==
  (ghost.outcome = "stopped" /\ ShowsStopped) => SignalAborted

\* The step ends an agent call by a failure: the next attempt starts or the
\* call of runCodexAndPost is over.
AgentCallFails ==
  /\ turn.pc = "agent"
  /\ turn'.attempt = turn.attempt + 1 \/ turn'.pc \in {"done", "thrown"}
StopOutcome(g) == g.outcome \in {"stopped", "stopRejected"}

\* C40 amended: the stop edit is issued only by the step in which an agent
\* call fails with a cancellation-shaped failure (the handle is signaled, or
\* the error is an abort or a cancellation by its name or message), and it
\* ends the turn in that attempt; every other failure of an agent call
\* starts the next attempt with a new agent call while attempts are left
\* and ends the turn with the apology after the last, never with the stop
\* acknowledgement.
C40_StoppedOnlyOnCancellationShapedFailure ==
  [][/\ (StopOutcome(ghost') /\ ~StopOutcome(ghost)) =>
          /\ AgentCallFails
          /\ ghost'.cancelled
          /\ turn'.pc = "done"
          /\ turn'.attempt = turn.attempt
     /\ (AgentCallFails /\ ~ghost'.cancelled) =>
          /\ ~StopOutcome(ghost')
          /\ placeholder' # StopContent
          /\ ~SignalAborted
          /\ turn'.attempt = turn.attempt + 1
          /\ IF turn.attempt < MaxAttempts
             THEN turn'.pc = "agent" /\ turn'.agentCalls = turn.agentCalls + 1
             ELSE ghost'.outcome \in {"apology", "threw"}]_vars

\* An agent failure that was retried, then a failure with a cancellation
\* message on a turn nobody interrupted: the stop acknowledgement is shown.
C40_Witness ==
  /\ ghost.outcome = "stopped" /\ ShowsStopped
  /\ ghost.cancelled
  /\ ~SignalAborted
  /\ turn.attempt = 3
  /\ ghost.failAttempt = 2

====
